---- MODULE Spec2Model ----
(***************************************************************************)
(* Dual-mode volume scanner of ai-disk-analyzer: the generic walker        *)
(* (crates/disk-scanner/src/scanner.rs), the NTFS MFT scan and the top-N   *)
(* selector (crates/disk-scanner/src/mft_scan.rs), and the dispatcher that *)
(* chooses between them.                                                   *)
(*                                                                         *)
(* Strings are sequences of one-character strings, so that rfind, trim,    *)
(* prefix tests, byte order and ASCII case folding are computed on         *)
(* characters as the code computes them.  A walker path is the sequence of *)
(* file names below the scan root (the root is <<>>); an MFT path is one   *)
(* string such as C:\d\a.                                                  *)
(*                                                                         *)
(* The caps of the program (10 levels / 500 children while building, 6     *)
(* levels / 250 children returned, a progress event every 10,000) are      *)
(* scaled down so that inputs that exceed them fit in the model; their     *)
(* order is the program's.                                                 *)
(***************************************************************************)
EXTENDS Integers, Sequences, FiniteSets, TLC

VARIABLES
    api,             \* entry point called
    pc,              \* position of the call
    pathKind,        \* what the path argument names: "missing", "dir", "volume_root"
    use_mft,         \* the use_mft argument of the dispatcher
    fs,              \* the directory tree on disk: set of walker paths present
    shallow_dirs,    \* the shallow_dirs argument
    rootListDenied,  \* read_dir of the scan root fails with PermissionDenied
    hasProgress,     \* a progress callback was passed
    volume,          \* the volume's MFT: set of the slots of MftSlots in use
    openOutcome,     \* what opening the raw volume answers
    n,               \* the n argument of scan_volume_mft_top_files
    overflow_checks, \* the build checks integer overflow (debug) or wraps (release)
    chunks,          \* the lengths of the Data chunks the $DATA stream arrives in
    fault,           \* where and how the MFT producer thread fails
    cb_invoked,      \* the progress callback has been invoked
    cb_counts,       \* the counts passed to the callback by the MFT scans, in order
    volumeOpened,    \* Volume::new has been called
    next_slot,       \* next MFT record number to enumerate
    records,         \* Vec<MftRecord>
    child_index,     \* HashMap<String, Vec<usize>>
    direct_sizes,    \* HashMap<String, u64>
    counter,         \* AtomicU64 counting accepted records
    producer,        \* the producer thread: position, messages sent, what it returned
    chan,            \* the messages in the sync_channel
    received,        \* the messages the consumer has received
    consumer,        \* the consumer's variables (record_size, bitmap, volume, ..)
    producer_joined, \* producer_handle.join() has been called
    tasks,           \* the directory tasks of a walker scan on worker threads
    builder,         \* the parallel tree build: nodes_built, last_reported, its threads
    recursive_sizes, \* HashMap<String, u64> of compute_recursive_sizes
    tree,            \* what build_tree_from_mft_records returned (unpruned)
    heap,            \* BinaryHeap of the top-N selector
    mft_ret,         \* what scan_volume_mft returned to the dispatcher
    result           \* what the entry point returned

inputs == <<api, pathKind, use_mft, fs, shallow_dirs, rootListDenied, hasProgress,
            volume, openOutcome, n, overflow_checks, chunks, fault>>
mftState == <<next_slot, records, child_index, direct_sizes, counter>>
pipe == <<producer, chan, received, consumer, producer_joined>>
vars == <<inputs, pc, cb_invoked, cb_counts, volumeOpened, mftState, pipe, tasks, builder,
          recursive_sizes, tree, heap, mft_ret, result>>

(***************************************************************************)
(* Program constants (scaled) and model bounds.                            *)
(***************************************************************************)
MAX_DEPTH == 3
MAX_CHILDREN_PER_DIR == 3
MAX_DEPTH_RETURN == 2
MAX_CHILDREN_PER_DIR_RETURN == 2
PROGRESS_EVERY == 3
BUILD_TREE_PROGRESS_EVERY == 3
TOP_FILES_FOR_RESULT == 2
\* largest n passed to scan_volume_mft_top_files
MaxN == 2
\* largest value of the unsigned size type (stands for 2^64 - 1)
U64_MAX == 65535

SHALLOW_DIR_NAMES ==
    { <<"n", "o", "d", "e", "_", "m", "o", "d", "u", "l", "e", "s">>, <<".", "g", "i", "t">>, <<".", "g", "i", "t", "h", "u", "b">>, <<".", "v", "e", "n", "v">>, <<"v", "e", "n", "v">>, <<"_", "_", "p", "y", "c", "a", "c", "h", "e", "_", "_">>,
      <<"t", "a", "r", "g", "e", "t">>, <<"v", "e", "n", "d", "o", "r">>, <<".", "n", "p", "m">>, <<".", "y", "a", "r", "n">>, <<".", "p", "n", "p", "m">>, <<"b", "o", "w", "e", "r", "_", "c", "o", "m", "p", "o", "n", "e", "n", "t", "s">>,
      <<"j", "s", "p", "m", "_", "p", "a", "c", "k", "a", "g", "e", "s">> }

\* Option::None for Option<u64> values (every Some is >= 0)
None == -1
\* the marker " [...]" that format!("{} [...]", child_name) appends; the four CJK
\* characters between the brackets are written "no-permission" here
NoPermSuffix == <<" ", "[", "n", "o", "-", "p", "e", "r", "m", "i", "s", "s", "i", "o", "n", "]">>
\* Option<String>: None, and Some(s)
NoneStr == <<>>
SomeStr(s) == <<s>>
\* Option<Vec<TopFileEntry>>: None, and Some(list)
NoneVec == <<>>
SomeVec(list) == <<list>>
\* a panic unwinding out of the entry point
Panicked == [state |-> "panic"]
NoResult == [state |-> "none"]
Ok(v) == [state |-> "Ok", value |-> v]
Err(kind, msg) == [state |-> "Err", kind |-> kind, msg |-> msg]

(***************************************************************************)
(* Strings.                                                                *)
(***************************************************************************)
AsciiTable ==
    << " ", "!", "\"", "#", "$", "%", "&", "'", "(", ")", "*", "+", ",", "-", ".", "/",
       "0", "1", "2", "3", "4", "5", "6", "7", "8", "9", ":", ";", "<", "=", ">", "?",
       "@", "A", "B", "C", "D", "E", "F", "G", "H", "I", "J", "K", "L", "M", "N", "O",
       "P", "Q", "R", "S", "T", "U", "V", "W", "X", "Y", "Z", "[", "\\", "]", "^", "_",
       "grave", "a", "b", "c", "d", "e", "f", "g", "h", "i", "j", "k", "l", "m", "n", "o",
       "p", "q", "r", "s", "t", "u", "v", "w", "x", "y", "z", "{", "|", "}", "~" >>
\* position of a character in AsciiTable (its byte minus 31); byte 96 is written "grave"
Code == [c \in { AsciiTable[i] : i \in 1..Len(AsciiTable) } |->
            CHOOSE i \in 1..Len(AsciiTable) : AsciiTable[i] = c]
BS == "\\"

IsAsciiUpper(c) == Code[c] >= Code["A"] /\ Code[c] <= Code["Z"]
IsAsciiAlphabetic(c) == IsAsciiUpper(c) \/ (Code[c] >= Code["a"] /\ Code[c] <= Code["z"])
ToAsciiLower(c) == IF IsAsciiUpper(c) THEN AsciiTable[Code[c] + 32] ELSE c
ToAsciiUpper(c) ==
    IF IsAsciiAlphabetic(c) /\ ~IsAsciiUpper(c) THEN AsciiTable[Code[c] - 32] ELSE c

\* str::eq_ignore_ascii_case
EqIgnoreAsciiCase(a, b) ==
    /\ Len(a) = Len(b)
    /\ \A i \in 1..Len(a) : ToAsciiLower(a[i]) = ToAsciiLower(b[i])

\* Ord for str: byte-wise lexicographic
RECURSIVE StrLess(_, _)
StrLess(a, b) ==
    IF b = <<>> THEN FALSE
    ELSE IF a = <<>> THEN TRUE
    ELSE IF Head(a) = Head(b) THEN StrLess(Tail(a), Tail(b))
    ELSE Code[Head(a)] < Code[Head(b)]

StartsWith(s, pre) == Len(s) >= Len(pre) /\ SubSeq(s, 1, Len(pre)) = pre
EndsWith(s, suf) == Len(s) >= Len(suf) /\ SubSeq(s, Len(s) - Len(suf) + 1, Len(s)) = suf
From(s, i) == SubSeq(s, i, Len(s))

RECURSIVE TrimEndMatches(_, _)
TrimEndMatches(s, c) ==
    IF s # <<>> /\ s[Len(s)] = c THEN TrimEndMatches(SubSeq(s, 1, Len(s) - 1), c) ELSE s

RECURSIVE TrimStartMatches(_, _)
TrimStartMatches(s, c) ==
    IF s # <<>> /\ Head(s) = c THEN TrimStartMatches(Tail(s), c) ELSE s

ReplaceChar(s, from, to) == [i \in 1..Len(s) |-> IF s[i] = from THEN to ELSE s[i]]

\* str::rfind of a character: its last position, 0 when there is none
RFind(s, c) ==
    IF \E i \in 1..Len(s) : s[i] = c
    THEN CHOOSE i \in 1..Len(s) : s[i] = c /\ \A j \in (i + 1)..Len(s) : s[j] # c
    ELSE 0

CountChar(s, c) == Cardinality({ i \in 1..Len(s) : s[i] = c })

RECURSIVE SumSeq(_)
SumSeq(s) == IF s = <<>> THEN 0 ELSE Head(s) + SumSeq(Tail(s))

RECURSIVE SetSum(_, _)
SetSum(S, f) ==
    IF S = {} THEN 0 ELSE LET x == CHOOSE y \in S : TRUE IN f[x] + SetSum(S \ {x}, f)

Min(a, b) == IF a < b THEN a ELSE b
Take(s, k) == SubSeq(s, 1, Min(Len(s), k))
SaturatingAdd(a, b) == Min(a + b, U64_MAX)
\* u64 arithmetic of +, += and Iterator::sum: with overflow checks (debug builds) a
\* sum above U64_MAX panics, without them (release builds) it wraps
WrappingSum(s) == SumSeq(s) % (U64_MAX + 1)
SumOverflows(s) == SumSeq(s) > U64_MAX

(***************************************************************************)
(* The directory tree the walker reads.  UEntries gives, for every path    *)
(* that may exist, what the OS answers for it; fs is a prefix-closed       *)
(* subset of these paths.  deny = "meta": fs::metadata fails with          *)
(* PermissionDenied; deny = "list": read_dir fails with PermissionDenied.  *)
(***************************************************************************)
\* metadata.len() of a directory itself (never part of any reported size)
DirLen == 4
File(p, s) == [path |-> p, kind |-> "file", size |-> s, deny |-> "none", mtime |-> 10 + Len(p)]
Dir(p) == [path |-> p, kind |-> "dir", size |-> DirLen, deny |-> "none", mtime |-> 20 + Len(p)]
Denied(e, how) == [e EXCEPT !.deny = how]

UEntries ==
    { File(<< <<"a">> >>, 1),
      Dir(<< <<"d">> >>),
      Dir(<< <<"t", "a", "r", "g", "e", "t">> >>),
      Denied(Dir(<< <<".", "g", "i", "t">> >>), "list"),
      File(<< <<"d">>, <<"a">> >>, 2),
      Dir(<< <<"d">>, <<"d">> >>),
      Dir(<< <<"d">>, <<"T", "a", "r", "g", "e", "t">> >>),
      Dir(<< <<"d">>, <<"d">>, <<"d">> >>),
      File(<< <<"d">>, <<"d">>, <<"d">>, <<"a">> >>, 8),
      File(<< <<"d">>, <<"T", "a", "r", "g", "e", "t">>, <<"a">> >>, 16),
      Dir(<< <<"d">>, <<"T", "a", "r", "g", "e", "t">>, <<"d">> >>),
      File(<< <<"d">>, <<"T", "a", "r", "g", "e", "t">>, <<"d">>, <<"a">> >>, 32),
      File(<< <<"t", "a", "r", "g", "e", "t">>, <<"a">> >>, 64),
      Denied(Dir(<< <<"t", "a", "r", "g", "e", "t">>, <<"l", "o", "c", "k", "e", "d">> >>), "list"),
      Denied(File(<< <<"t", "a", "r", "g", "e", "t">>, <<"n", "o", "m", "e", "t", "a">> >>, 128), "meta") }

UPaths == { e.path : e \in UEntries }
RootEntry == [path |-> <<>>, kind |-> "dir", size |-> DirLen, deny |-> "none", mtime |-> 20]
Entry(p) == IF p = <<>> THEN RootEntry ELSE CHOOSE e \in UEntries : e.path = p

Parent(p) == SubSeq(p, 1, Len(p) - 1)
FileName(p) == p[Len(p)]
PrefixClosed(S) == \A p \in S : Len(p) > 1 => Parent(p) \in S
AllFS == { S \in SUBSET UPaths : PrefixClosed(S) }
\* the trees scanned without a progress callback, and by the dispatcher
SmallFS == { {}, { << <<"a">> >>, << <<"d">> >>, << <<"d">>, <<"a">> >> }, UPaths }

\* Path::is_dir: false when the metadata cannot be read
PathIsDir(p) == Entry(p).kind = "dir" /\ Entry(p).deny # "meta"

\* fs::read_dir(p), as a set: the order the OS lists entries in is not used
ReadDir(p) == { q \in fs : Len(q) = Len(p) + 1 /\ Parent(q) = p }

(***************************************************************************)
(* Generic walker (scanner.rs).                                            *)
(***************************************************************************)
\* mutant of EntryLess: names alone are compared
EntryLessByName(a, b) == StrLess(FileName(a), FileName(b))

\* the comparator of entries.sort_by (scanner.rs:94-102)
EntryLess(a, b) ==
    IF PathIsDir(a) # PathIsDir(b)
    THEN PathIsDir(a)
    ELSE StrLess(FileName(a), FileName(b))

RECURSIVE SortEntries(_)
SortEntries(S) ==
    IF S = {} THEN <<>>
    ELSE LET m == CHOOSE x \in S : \A y \in S \ {x} : EntryLess(x, y)
         IN <<m>> \o SortEntries(S \ {m})

\* dir_size_only: the total size below p, the amount added to the counter (one
\* per directory listed) and the number of callbacks made.  A denied listing
\* returns Ok(0) before the counter is touched.
\* the result of a listed directory whose entries gave the results sub
dir_size_total(sub) ==
    [ok |-> TRUE,
     total |-> Min(SumSeq([i \in 1..Len(sub) |-> sub[i].total]), U64_MAX),
     ctr |-> SumSeq([i \in 1..Len(sub) |-> sub[i].ctr]) + 1,
     cbs |-> SumSeq([i \in 1..Len(sub) |-> sub[i].cbs]) + (IF hasProgress THEN 1 ELSE 0)]

\* entry.metadata().map(|m| m.len()).unwrap_or(0) of an entry that is no directory
file_size_only(q) ==
    [ok |-> TRUE, total |-> IF Entry(q).deny = "meta" THEN 0 ELSE Entry(q).size,
     ctr |-> 0, cbs |-> 0]

RECURSIVE dir_size_only(_)
RECURSIVE dir_size_entries(_)
dir_size_entries(S) ==
    IF S = {} THEN <<>>
    ELSE LET q == CHOOSE x \in S : TRUE
         IN Append(dir_size_entries(S \ {q}),
                   IF PathIsDir(q) THEN dir_size_only(q) ELSE file_size_only(q))

dir_size_only(p) ==
    IF Entry(p).deny = "list"
    THEN [ok |-> TRUE, total |-> 0, ctr |-> 0, cbs |-> 0]
    ELSE dir_size_total(dir_size_entries(ReadDir(p)))

\* mutant of IsShallowDir: the name is compared exactly
IsShallowDirExact(q, shallow) ==
    /\ PathIsDir(q)
    /\ shallow
    /\ FileName(q) \in SHALLOW_DIR_NAMES

IsShallowDir(q, shallow) ==
    /\ PathIsDir(q)
    /\ shallow
    /\ \E s \in SHALLOW_DIR_NAMES : EqIgnoreAsciiCase(s, FileName(q))

\* the node built for a child that answered PermissionDenied (scanner.rs:136-146, 159-169)
SyntheticNode(q, isDir) ==
    [path |-> q, name |-> FileName(q) \o NoPermSuffix, size |-> 0, is_dir |-> isDir,
     modified |-> None, children |-> <<>>]

\* entry.metadata().ok().and_then(modified) (scanner.rs:117-122)
EntryModified(q) == IF Entry(q).deny = "meta" THEN None ELSE Entry(q).mtime

\* the match on the result r of dir_size_only (scanner.rs:124-148)
ShallowMatch(q, r) ==
    IF r.ok
    THEN [ok |-> TRUE,
          node |-> [path |-> q, name |-> FileName(q), size |-> r.total,
                    is_dir |-> TRUE, modified |-> EntryModified(q), children |-> <<>>],
          cnt |-> 1, ctr |-> r.ctr, cbs |-> r.cbs]
    ELSE IF r.err = "PermissionDenied"
    THEN [ok |-> TRUE, node |-> SyntheticNode(q, TRUE), cnt |-> 0, ctr |-> 0, cbs |-> 0]
    ELSE r

\* the branch of a shallow directory (scanner.rs:123-148)
ShallowChild(q) == ShallowMatch(q, dir_size_only(q))

\* the match on the result r of the recursive call (scanner.rs:150-171)
ChildMatch(q, r) ==
    IF r.ok THEN r
    ELSE IF r.err = "PermissionDenied"
    THEN [ok |-> TRUE, node |-> SyntheticNode(q, PathIsDir(q)), cnt |-> 0, ctr |-> 0, cbs |-> 0]
    ELSE r

\* mutants of InitialSize and InitialFileCount: the directory's own length is
\* kept, a directory counts as one
InitialSizeOfMetadata(is_dir, len) == len
InitialFileCountOfEntry(is_dir) == 1

\* let mut size = if is_dir { 0 } else { metadata.len() } (scanner.rs:79)
InitialSize(is_dir, len) == IF is_dir THEN 0 ELSE len

\* let mut file_count = if is_dir { 0 } else { 1 } (scanner.rs:80)
InitialFileCount(is_dir) == IF is_dir THEN 0 ELSE 1

\* the node and count before any child is added (scanner.rs:78-81, 190-205)
LeafResult(p, name, is_dir) ==
    [ok |-> TRUE,
     node |-> [path |-> p, name |-> name, size |-> InitialSize(is_dir, Entry(p).size),
               is_dir |-> is_dir, modified |-> Entry(p).mtime, children |-> <<>>],
     cnt |-> InitialFileCount(is_dir), ctr |-> 0, cbs |-> 0]

\* the loop over the children's results, the counter update and the callback
\* (scanner.rs:176-187): the first error is returned, else sizes and counts add up
DirResult(leaf, results) ==
    LET bad == { i \in 1..Len(results) : ~results[i].ok }
        file_count == leaf.cnt + SumSeq([i \in 1..Len(results) |-> results[i].cnt])
    IN IF bad # {}
       THEN results[CHOOSE i \in bad : \A j \in bad : i <= j]
       ELSE [ok |-> TRUE,
             node |-> [leaf.node EXCEPT
                         !.size = leaf.node.size
                                  + SumSeq([i \in 1..Len(results) |-> results[i].node.size]),
                         !.children = [i \in 1..Len(results) |-> results[i].node]],
             cnt |-> file_count,
             ctr |-> SumSeq([i \in 1..Len(results) |-> results[i].ctr]) + file_count,
             cbs |-> SumSeq([i \in 1..Len(results) |-> results[i].cbs])
                     + (IF hasProgress THEN 1 ELSE 0)]

\* build_tree (scanner.rs:62-206).  ok, node, cnt: the Result<(FileNode, u64)>;
\* ctr: what the call added to the shared counter; cbs: callbacks it made.
\* ChildResults: the results of the par_iter over the entries kept, in their order.
RECURSIVE build_tree(_, _, _, _)
RECURSIVE ChildResults(_, _, _)
ChildResults(entries, depth, shallow) ==
    IF entries = <<>> THEN <<>>
    ELSE LET q == Head(entries)
         IN <<IF IsShallowDir(q, shallow) THEN ShallowChild(q)
              ELSE ChildMatch(q, build_tree(q, FileName(q), depth + 1, shallow))>>
            \o ChildResults(Tail(entries), depth, shallow)

build_tree(p, name, depth, shallow) ==
    IF Entry(p).deny = "meta" THEN [ok |-> FALSE, err |-> "PermissionDenied"]
    ELSE IF ~(Entry(p).kind = "dir" /\ depth < MAX_DEPTH)
    THEN LeafResult(p, name, Entry(p).kind = "dir")
    ELSE IF Entry(p).deny = "list" \/ (p = <<>> /\ rootListDenied)
    THEN [ok |-> FALSE, err |-> "PermissionDenied"]
    ELSE DirResult(LeafResult(p, name, TRUE),
                   ChildResults(Take(SortEntries(ReadDir(p)), MAX_CHILDREN_PER_DIR),
                                depth, shallow))

\* the name build_tree gives the root: the last component of the canonical path
RootName == <<"r", "o", "o", "t">>

\* the ScanResult made of the result r of build_tree (scanner.rs:239-255)
WalkerScanResult(r) ==
    IF r.ok
    THEN [ret |-> Ok([root |-> r.node, file_count |-> r.cnt, total_size |-> r.node.size]),
          cbs |-> r.cbs]
    ELSE [ret |-> Err(r.err, "root"), cbs |-> 0]

\* scan_path_with_progress of the walker (scanner.rs:217-256)
scan_path_with_progress(shallow) ==
    IF pathKind = "missing"
    THEN [ret |-> Err("InvalidPath", "path does not exist"), cbs |-> 0]
    ELSE WalkerScanResult(build_tree(<<>>, RootName, 0, shallow))

\* the call the walker entry points make: scan_path passes shallow_dirs = true
WalkerResult == scan_path_with_progress(shallow_dirs)

(***************************************************************************)
(* The MFT the volume scan enumerates.  MftSlots[i] is the FileInfo that   *)
(* ntfs-reader yields for MFT record i when the record is in use; a volume *)
(* is the set of slots in use, and records are enumerated in slot order.   *)
(* Paths come in the forms the normalizer knows (\\.\C:\.., \\?\C:\..,     *)
(* c:\.., forward slashes) and one lies on another drive.  Slot 15 has the *)
(* size of slots 1 and 3; slot 16 is a malformed record whose size is the  *)
(* largest the size type holds.                                            *)
(***************************************************************************)
FileInfo(p, s, d, m) == [path |-> p, size |-> s, is_directory |-> d, modified |-> m]

MftSlots ==
    << FileInfo(<<"\\", "\\", ".", "\\", "C", ":", "\\", "d", "\\", "a">>, 2, FALSE, 5),
       FileInfo(<<"\\", "\\", ".", "\\", "C", ":", "\\", "d">>, 0, TRUE, 6),
       FileInfo(<<"c", ":", "\\", "a">>, 2, FALSE, 0),
       FileInfo(<<"\\", "\\", "?", "\\", "C", ":", "\\", "d", "\\", "b">>, 1, FALSE, 7),
       FileInfo(<<"\\", "\\", ".", "\\", "C", ":", "\\", "d", "\\", "d">>, 0, TRUE, None),
       FileInfo(<<"\\", "\\", ".", "\\", "C", ":", "\\", "d", "\\", "t", "a", "r", "g", "e", "t">>, 0, TRUE, 8),
       FileInfo(<<"\\", "\\", ".", "\\", "C", ":", "\\", "d", "\\", "t", "a", "r", "g", "e", "t", "\\", "a">>, 8, FALSE, 9),
       FileInfo(<<"\\", "\\", ".", "\\", "C", ":", "\\", "d", "\\", "d", "\\", "d">>, 0, TRUE, 10),
       FileInfo(<<"\\", "\\", ".", "\\", "C", ":", "\\", "d", "\\", "d", "\\", "d", "\\", "d">>, 4, TRUE, 11),
       FileInfo(<<"\\", "\\", ".", "\\", "C", ":", "\\", "d", "\\", "d", "\\", "d", "\\", "d", "\\", "a">>, 16, FALSE, 12),
       FileInfo(<<"\\", "\\", ".", "\\", "C", ":", "/", "T", "a", "r", "g", "e", "t">>, 0, TRUE, 13),
       FileInfo(<<"\\", "\\", ".", "\\", "C", ":", "\\", "T", "a", "r", "g", "e", "t", "\\", "a">>, 32, FALSE, 14),
       FileInfo(<<"\\", "\\", ".", "\\", "C", ":", "\\">>, 1, TRUE, 15),
       FileInfo(<<"\\", "\\", ".", "\\", "D", ":", "\\", "x">>, 64, FALSE, 16),
       FileInfo(<<"\\", "\\", ".", "\\", "C", ":", "\\", "b">>, 2, FALSE, 17),
       FileInfo(<<"\\", "\\", ".", "\\", "C", ":", "\\", "T", "a", "r", "g", "e", "t", "\\", "b", "i", "g">>, U64_MAX, FALSE, 18) >>

\* the drive letter drive_letter_from_volume_root extracts from the volume root C:\
Drive == <<"C">>
volume_root_trim == Drive \o <<":">>
volume_root_key == Drive \o <<":", "\\">>
\* path_buf.display() and path_buf.file_name() (none) of the canonical root \\?\C:\
RootPathStr == <<"\\", "\\", "?", "\\", "C", ":", "\\">>
MftRootName == <<"C", ":", "\\">>

\* normalize_ntfs_path (mft_scan.rs:107-138)
normalize_ntfs_path(path_str0, drive) ==
    LET path_str == ReplaceChar(TrimEndMatches(path_str0, BS), "/", BS)
        prefix == <<BS, BS, ".", BS>> \o drive \o <<":">>
        joined(rest) ==
            IF rest = <<>> THEN drive \o <<":", BS>> ELSE drive \o <<":", BS>> \o rest
    IN IF StartsWith(path_str, prefix)
       THEN joined(TrimStartMatches(From(path_str, Len(prefix) + 1), BS))
       ELSE IF StartsWith(path_str, <<BS, BS, "?", BS>>) /\ Len(path_str) >= 6
       THEN LET rest == From(path_str, 5)
            IN IF StartsWith(rest, drive \o <<":">>)
               THEN joined(TrimStartMatches(From(rest, 3), BS))
               ELSE path_str
       ELSE IF Len(path_str) >= 2 /\ path_str[2] = ":"
       THEN IF ToAsciiLower(path_str[1]) = ToAsciiLower(drive[1])
            THEN joined(TrimStartMatches(From(path_str, 3), BS))
            ELSE path_str
       ELSE path_str

\* mutant of path_under_volume_ascii: the drive letter and the colon are not compared
path_under_any_volume(path, vol_trim) == Len(path) >= Len(vol_trim)

\* path_under_volume_ascii (mft_scan.rs:154-173)
path_under_volume_ascii(path, vol_trim) ==
    IF EqIgnoreAsciiCase(path, vol_trim) THEN TRUE
    ELSE IF Len(path) <= Len(vol_trim) THEN FALSE
    ELSE IF path[Len(vol_trim) + 1] # BS THEN FALSE
    ELSE \A i \in 1..Len(vol_trim) : ToAsciiLower(path[i]) = ToAsciiLower(vol_trim[i])

\* the record a slot adds, and the slot of its parent directory
SlotPath(i) == normalize_ntfs_path(MftSlots[i].path, Drive)
SlotParentPath(i) == SubSeq(SlotPath(i), 1, RFind(SlotPath(i), BS) - 1)
ForeignSlots == { i \in 1..Len(MftSlots) : ~path_under_volume_ascii(SlotPath(i), volume_root_trim) }
\* a volume holds the record of the directory of each record it holds; the record
\* of the root directory may be absent, the foreign record is always there
WellFormedSlots == { i \in 1..Len(MftSlots) : i <= 14 }
AllVolumes ==
    { V \in SUBSET WellFormedSlots :
        /\ ForeignSlots \subseteq V
        /\ \A i \in V : \A j \in 1..Len(MftSlots) :
              SlotPath(j) = SlotParentPath(i) => j \in V }
\* volumes with files of one size in several orders, and with the malformed record
OddVolumes ==
    { ForeignSlots \cup {3, 15}, ForeignSlots \cup {1, 2, 3, 4, 15},
      ForeignSlots \cup {11, 13, 16}, ForeignSlots \cup {11, 12, 16},
      ForeignSlots \cup {2, 6, 7, 11, 12, 13, 16}, 1..Len(MftSlots) }
Volumes == AllVolumes \cup OddVolumes
\* the volumes scanned without a progress callback, and by the dispatcher
SmallVolumes == { ForeignSlots, ForeignSlots \cup {1, 2, 3, 13}, WellFormedSlots }

(***************************************************************************)
(* HashMap as a function on the set of its keys.                           *)
(***************************************************************************)
EmptyMap == [k \in {} |-> 0]
MapGet(m, k, default) == IF k \in DOMAIN m THEN m[k] ELSE default
MapPut(m, k, v) == [x \in (DOMAIN m) \cup {k} |-> IF x = k THEN v ELSE m[x]]

\* info.modified.and_then(|t| if t.unix_timestamp() > 0 { Some } else { None })
ModifiedOf(info) == IF info.modified # None /\ info.modified > 0 THEN info.modified ELSE None

(***************************************************************************)
(* Record indexer: the body of the enumeration callback of scan_volume_mft *)
(* (mft_scan.rs:439-473 with a progress callback, 514-550 without).        *)
(* Record indices are 1-based here (idx = Len(records), the code has       *)
(* records.len() - 1).                                                     *)
(***************************************************************************)
\* the MftRecord pushed for a FileInfo (mft_scan.rs:454-459, 531-536)
MftRecord(info) ==
    [full_path |-> normalize_ntfs_path(info.path, Drive), size |-> info.size,
     is_dir |-> info.is_directory, modified |-> ModifiedOf(info)]

\* mutant of IndexChild: the root record is filed like any other
IndexChildAlways(index, full_path, idx) ==
    IF RFind(full_path, BS) # 0
    THEN MapPut(index, SubSeq(full_path, 1, RFind(full_path, BS) - 1),
                Append(MapGet(index, SubSeq(full_path, 1, RFind(full_path, BS) - 1), <<>>),
                       idx))
    ELSE index

\* child_index.entry(parent).or_default().push(idx) unless the record is the root
IndexChild(index, full_path, idx) ==
    IF ~EqIgnoreAsciiCase(TrimEndMatches(full_path, BS), volume_root_trim)
       /\ RFind(full_path, BS) # 0
    THEN MapPut(index, SubSeq(full_path, 1, RFind(full_path, BS) - 1),
                Append(MapGet(index, SubSeq(full_path, 1, RFind(full_path, BS) - 1), <<>>),
                       idx))
    ELSE index

\* direct_sizes.entry(path_trim).and_modify(saturating_add).or_insert(s)
AddDirect(direct, path_trim, s) ==
    IF path_trim \in DOMAIN direct
    THEN MapPut(direct, path_trim, SaturatingAdd(direct[path_trim], s))
    ELSE MapPut(direct, path_trim, s)

\* st: records, child_index, direct_sizes, counter and the counts passed to the
\* callback so far (events); progress: a callback is at hand
IndexRecord(st, info, progress) ==
    IF ~path_under_volume_ascii(normalize_ntfs_path(info.path, Drive), volume_root_trim)
    THEN st
    ELSE [records |-> Append(st.records, MftRecord(info)),
          child_index |-> IndexChild(st.child_index, normalize_ntfs_path(info.path, Drive),
                                     Len(st.records) + 1),
          direct_sizes |->
             AddDirect(st.direct_sizes,
                       TrimEndMatches(normalize_ntfs_path(info.path, Drive), BS), info.size),
          counter |-> st.counter + 1,
          events |-> IF progress /\ st.counter > 0 /\ st.counter % PROGRESS_EVERY = 0
                     THEN Append(st.events, st.counter) ELSE st.events]

(***************************************************************************)
(* Size aggregator: compute_recursive_sizes (mft_scan.rs:275-317).         *)
(***************************************************************************)
\* paths.sort(); paths.dedup(); paths.sort_by_cached_key(Reverse(separator count))
PathBefore(a, b) ==
    IF CountChar(a, BS) # CountChar(b, BS)
    THEN CountChar(a, BS) > CountChar(b, BS)
    ELSE StrLess(a, b)

RECURSIVE SortPaths(_)
SortPaths(S) ==
    IF S = {} THEN <<>>
    ELSE LET m == CHOOSE x \in S : \A y \in S \ {x} : PathBefore(x, y)
         IN <<m>> \o SortPaths(S \ {m})

\* the terms of child_sum (mft_scan.rs:301-312): what the map holds so far for the
\* records listed under key
ChildTerms(acc, recs, indices) ==
    [k \in 1..Len(indices) |->
        MapGet(acc, TrimEndMatches(recs[indices[k]].full_path, BS), 0)]

\* the loop over paths (mft_scan.rs:293-315); overflow: some child_sum exceeded the
\* size type
RECURSIVE RecursiveFold(_, _, _, _, _, _, _, _)
RecursiveFold(paths, acc, overflow, recs, index, direct, root_trim, root_key) ==
    IF paths = <<>> THEN [sizes |-> acc, overflow |-> overflow]
    ELSE LET path == Head(paths)
             d == MapGet(direct, path, 0)
             key == IF EqIgnoreAsciiCase(path, root_trim) THEN root_key ELSE path
             terms == ChildTerms(acc, recs, MapGet(index, key, <<>>))
         IN RecursiveFold(Tail(paths),
                          MapPut(acc, path, SaturatingAdd(d, WrappingSum(terms))),
                          overflow \/ SumOverflows(terms),
                          recs, index, direct, root_trim, root_key)

compute_recursive_sizes(recs, index, direct, root_trim, root_key) ==
    LET own == { TrimEndMatches(recs[i].full_path, BS) : i \in 1..Len(recs) }
        paths == IF \E p \in own : EqIgnoreAsciiCase(p, root_trim)
                 THEN own ELSE own \cup {root_trim}
    IN RecursiveFold(SortPaths(paths), EmptyMap, FALSE, recs, index, direct, root_trim,
                     root_key)

(***************************************************************************)
(* Tree builder (mft_scan.rs:629-733, 786-890).                            *)
(***************************************************************************)
\* rec.full_path.rsplit('\\').next()
LastComponent(s) == From(s, RFind(s, BS) + 1)

IsShallowName(shallow, rec, name) ==
    /\ shallow
    /\ rec.is_dir
    /\ \E s \in SHALLOW_DIR_NAMES : EqIgnoreAsciiCase(s, name)

\* the leaf of a shallow directory (mft_scan.rs:678-690, 822-836)
ShallowLeaf(rec, name, rsz) ==
    [path |-> rec.full_path, name |-> name,
     size |-> MapGet(rsz, TrimEndMatches(rec.full_path, BS), rec.size),
     is_dir |-> TRUE, modified |-> rec.modified, children |-> <<>>]

\* the leaf below the depth cap (mft_scan.rs:854-864)
CappedLeaf(rec, name) ==
    [path |-> rec.full_path, name |-> name, size |-> rec.size, is_dir |-> rec.is_dir,
     modified |-> rec.modified, children |-> <<>>]

\* the node build_subtree_from_indices returns for the results of its loop
\* (mft_scan.rs:800-805, 871-889).  node, cnt: the pair returned; built: calls made
\* (what the call adds to nodes_built); overflow: a size sum exceeded the size type
SubtreeResult(path_prefix, name, res) ==
    [node |-> [path |-> path_prefix, name |-> name,
               size |-> WrappingSum([k \in 1..Len(res) |-> res[k].node.size]),
               is_dir |-> TRUE, modified |-> None,
               children |-> [k \in 1..Len(res) |-> res[k].node]],
     cnt |-> SumSeq([k \in 1..Len(res) |-> res[k].cnt]) + 1,
     built |-> SumSeq([k \in 1..Len(res) |-> res[k].built]) + 1,
     overflow |-> \/ SumOverflows([k \in 1..Len(res) |-> res[k].node.size])
                  \/ \E k \in 1..Len(res) : res[k].overflow]

RECURSIVE build_subtree_from_indices(_, _, _, _, _, _, _)
RECURSIVE SubtreeChildren(_, _, _, _, _, _)

\* one turn of the loop over children_indices (mft_scan.rs:806-865)
SubtreeChild(recs, index, rsz, idx, depth, shallow) ==
    IF IsShallowName(shallow, recs[idx], LastComponent(recs[idx].full_path))
    THEN [node |-> ShallowLeaf(recs[idx], LastComponent(recs[idx].full_path), rsz),
          cnt |-> 1, built |-> 0, overflow |-> FALSE]
    ELSE IF depth < MAX_DEPTH
    THEN build_subtree_from_indices(recs, index, rsz, recs[idx].full_path,
                                    LastComponent(recs[idx].full_path), depth + 1, shallow)
    ELSE [node |-> CappedLeaf(recs[idx], LastComponent(recs[idx].full_path)),
          cnt |-> 1, built |-> 0, overflow |-> FALSE]

SubtreeChildren(recs, index, rsz, kept, depth, shallow) ==
    IF kept = <<>> THEN <<>>
    ELSE <<SubtreeChild(recs, index, rsz, Head(kept), depth, shallow)>>
         \o SubtreeChildren(recs, index, rsz, Tail(kept), depth, shallow)

build_subtree_from_indices(recs, index, rsz, path_prefix, name, depth, shallow) ==
    LET children_indices == MapGet(index, path_prefix, <<>>)
        NotSelf(idx) == ~EqIgnoreAsciiCase(recs[idx].full_path, path_prefix)
        kept == Take(SelectSeq(children_indices, NotSelf), MAX_CHILDREN_PER_DIR)
    IN SubtreeResult(path_prefix, name,
                     SubtreeChildren(recs, index, rsz, kept, depth, shallow))

RECURSIVE count_nodes(_)
count_nodes(node) ==
    IF node.children = <<>> THEN 1
    ELSE 1 + SumSeq([k \in 1..Len(node.children) |-> count_nodes(node.children[k])])

\* child_index.get(volume_root_key).or_else(get(volume_root_trim)).or_else(a key
\* equal to one of them up to ASCII case) (mft_scan.rs:648-658)
DirectIndices(index, root_trim, root_key) ==
    IF root_key \in DOMAIN index THEN index[root_key]
    ELSE IF root_trim \in DOMAIN index THEN index[root_trim]
    ELSE LET ks == { k \in DOMAIN index :
                        EqIgnoreAsciiCase(k, root_key) \/ EqIgnoreAsciiCase(k, root_trim) }
         IN IF ks = {} THEN <<>> ELSE index[CHOOSE k \in ks : TRUE]

\* the root and the totals for the results of the closure over direct_indices
\* (mft_scan.rs:710-725)
RootResult(root_record, root_name, root_path_str, res) ==
    [root |-> [path |-> root_path_str, name |-> root_name,
               size |-> WrappingSum(<<root_record.size>>
                                    \o [k \in 1..Len(res) |-> res[k].node.size]),
               is_dir |-> TRUE, modified |-> root_record.modified,
               children |-> [k \in 1..Len(res) |-> res[k].node]],
     file_count |-> 1 + SumSeq([k \in 1..Len(res) |-> count_nodes(res[k].node)]),
     total_size |-> WrappingSum(<<root_record.size>>
                                \o [k \in 1..Len(res) |-> res[k].node.size]),
     nodes_built |-> SumSeq([k \in 1..Len(res) |-> res[k].built]),
     overflow |-> \/ SumOverflows(<<root_record.size>>
                                   \o [k \in 1..Len(res) |-> res[k].node.size])
                  \/ \E k \in 1..Len(res) : res[k].overflow]

\* the closure over direct_indices (mft_scan.rs:663-708)
RECURSIVE RootChildren(_, _, _, _, _)
RootChildren(recs, index, rsz, indices, shallow) ==
    IF indices = <<>> THEN <<>>
    ELSE LET rec == recs[Head(indices)]
             name == LastComponent(rec.full_path)
         IN << IF IsShallowName(shallow, rec, name)
               THEN [node |-> ShallowLeaf(rec, name, rsz), cnt |-> 1, built |-> 0,
                     overflow |-> FALSE]
               ELSE build_subtree_from_indices(recs, index, rsz, rec.full_path, name, 1,
                                               shallow) >>
            \o RootChildren(recs, index, rsz, Tail(indices), shallow)

build_tree_from_mft_records(recs, index, rsz, root_trim, root_key, root_name, root_path_str, shallow) ==
    LET roots == { i \in 1..Len(recs) :
                     EqIgnoreAsciiCase(TrimEndMatches(recs[i].full_path, BS), root_trim) }
        root_record == IF roots = {} THEN [size |-> 0, modified |-> None]
                       ELSE recs[CHOOSE i \in roots : \A j \in roots : i <= j]
    IN RootResult(root_record, root_name, root_path_str,
                  RootChildren(recs, index, rsz,
                               DirectIndices(index, root_trim, root_key), shallow))

(***************************************************************************)
(* Result assembler (mft_scan.rs:613-625, 736-783).                        *)
(***************************************************************************)
\* sort_by(|a, b| b.size.cmp(&a.size)): stable, largest size first
RECURSIVE SortBySizeDesc(_)
SortBySizeDesc(s) ==
    IF s = <<>> THEN <<>>
    ELSE LET i == CHOOSE k \in 1..Len(s) :
                    /\ \A j \in 1..Len(s) : s[j].size <= s[k].size
                    /\ \A j \in 1..(k - 1) : s[j].size < s[k].size
         IN <<s[i]>> \o SortBySizeDesc(SubSeq(s, 1, i - 1) \o SubSeq(s, i + 1, Len(s)))

\* mutant of prune_tree_for_display: a node's size is summed again from the
\* children it keeps
RECURSIVE prune_and_resum(_, _)
prune_and_resum(root, depth) ==
    IF depth >= MAX_DEPTH_RETURN \/ root.children = <<>>
    THEN [root EXCEPT !.children = <<>>]
    ELSE LET children == Take(SortBySizeDesc(root.children), MAX_CHILDREN_PER_DIR_RETURN)
             pruned == [k \in 1..Len(children) |-> prune_and_resum(children[k], depth + 1)]
         IN [root EXCEPT !.children = pruned,
                         !.size = SumSeq([k \in 1..Len(pruned) |-> pruned[k].size])]

RECURSIVE prune_tree_for_display(_, _)
prune_tree_for_display(root, depth) ==
    IF depth >= MAX_DEPTH_RETURN
    THEN [root EXCEPT !.children = <<>>]
    ELSE LET children == IF Len(root.children) > MAX_CHILDREN_PER_DIR_RETURN
                         THEN Take(SortBySizeDesc(root.children), MAX_CHILDREN_PER_DIR_RETURN)
                         ELSE root.children
         IN [root EXCEPT !.children =
                [k \in 1..Len(children) |-> prune_tree_for_display(children[k], depth + 1)]]

NotDir(r) == ~r.is_dir

\* mutant of build_top_files_from_records: directories are not filtered out
build_top_files_from_all_records(recs, k) ==
    LET top == Take(SortBySizeDesc(recs), k)
    IN [i \in 1..Len(top) |->
          [path |-> top[i].full_path, size |-> top[i].size, modified |-> top[i].modified]]

build_top_files_from_records(recs, k) ==
    LET files == SortBySizeDesc(SelectSeq(recs, NotDir))
        top == Take(files, k)
    IN [i \in 1..Len(top) |->
          [path |-> top[i].full_path, size |-> top[i].size, modified |-> top[i].modified]]

\* to_disk_analyzer_error (mft_scan.rs:91-103): the message of the Io error
MftErrorMessage(outcome) ==
    CASE outcome = "ElevationError" ->
            "NTFS volume access requires elevated (admin) privileges"
      [] outcome = "IOError" -> "MFT read I/O error: <io>"
      [] OTHER -> "MFT error: <e>"
to_disk_analyzer_error(outcome) == Err("Io", MftErrorMessage(outcome))

(***************************************************************************)
(* Top-N selector: scan_volume_mft_top_files (mft_scan.rs:198-264).        *)
(* The heap is BinaryHeap<Reverse<(size, path, modified)>>: pop removes    *)
(* the least tuple.  It is kept as a sequence of its elements; the order   *)
(* into_iter visits them in is left open by the library.                   *)
(***************************************************************************)
\* Ord for (u64, String, Option<u64>); None is below every Some
TupleLess(a, b) ==
    IF a[1] # b[1] THEN a[1] < b[1]
    ELSE IF a[2] # b[2] THEN StrLess(a[2], b[2])
    ELSE a[3] < b[3]

RemoveAt(s, i) == SubSeq(s, 1, i - 1) \o SubSeq(s, i + 1, Len(s))

\* mutant of HeapPop: the heap is a max-heap, pop removes the greatest tuple
HeapPopGreatest(h) ==
    LET i == CHOOSE k \in 1..Len(h) : \A j \in 1..Len(h) : j = k \/ ~TupleLess(h[k], h[j])
    IN RemoveAt(h, i)

\* heap.pop()
HeapPop(h) ==
    LET i == CHOOSE k \in 1..Len(h) : \A j \in 1..Len(h) : j = k \/ ~TupleLess(h[j], h[k])
    IN RemoveAt(h, i)

\* mutant of PopWhileOver: the loop stops one entry early
RECURSIVE PopWhileOverNext(_, _)
PopWhileOverNext(h, k) == IF Len(h) > k + 1 THEN PopWhileOverNext(HeapPop(h), k) ELSE h

\* while heap.len() > n { heap.pop(); }
RECURSIVE PopWhileOver(_, _)
PopWhileOver(h, k) == IF Len(h) > k THEN PopWhileOver(HeapPop(h), k) ELSE h

\* mutant of TopVisit: directories are not skipped
TopVisitAll(info) ==
    LET full_path == normalize_ntfs_path(info.path, Drive)
        c == counter
    IN IF ~path_under_volume_ascii(full_path, volume_root_trim)
       THEN [heap |-> heap, counter |-> counter, cb |-> FALSE]
       ELSE [heap |-> PopWhileOver(Append(heap, <<info.size, full_path, ModifiedOf(info)>>), n),
             counter |-> c + 1,
             cb |-> hasProgress /\ c > 0 /\ c % PROGRESS_EVERY = 0]

\* the body of the iterate_files callback (mft_scan.rs:227-252)
TopVisit(info) ==
    LET full_path == normalize_ntfs_path(info.path, Drive)
        c == counter
    IN IF info.is_directory \/ ~path_under_volume_ascii(full_path, volume_root_trim)
       THEN [heap |-> heap, counter |-> counter, cb |-> FALSE]
       ELSE [heap |-> PopWhileOver(Append(heap, <<info.size, full_path, ModifiedOf(info)>>), n),
             counter |-> c + 1,
             cb |-> hasProgress /\ c > 0 /\ c % PROGRESS_EVERY = 0]

RECURSIVE Perms(_)
Perms(s) ==
    IF s = <<>> THEN { <<>> }
    ELSE UNION { { <<s[i]>> \o p : p \in Perms(RemoveAt(s, i)) } : i \in 1..Len(s) }

\* heap.into_iter().map(TopFileEntry).collect(), then list.sort_by(size descending)
TopLists(h) ==
    { SortBySizeDesc([i \in 1..Len(p) |->
                        [path |-> p[i][2], size |-> p[i][1], modified |-> p[i][3]]]) :
        p \in Perms(h) }

(***************************************************************************)
(* Actions.                                                                *)
(***************************************************************************)
\* the walker entry points scan_path and scan_path_with_progress (scanner.rs:217-261)
WalkerScan ==
    /\ api \in {"scan_path", "scan_path_with_progress"}
    /\ pc = "start"
    /\ \E w \in {WalkerResult} :
          /\ result' = w.ret
          /\ cb_invoked' = (cb_invoked \/ w.cbs > 0)
    /\ pc' = "done"
    /\ UNCHANGED <<inputs, cb_counts, volumeOpened, mftState, pipe, tasks, builder, recursive_sizes,
                   tree, heap, mft_ret>>

\* scan_volume_mft returns ret: to its caller when called alone, to the dispatcher
\* otherwise; a panic unwinds through both
MftReturns(ret) ==
    /\ mft_ret' = ret
    /\ IF api = "scan_volume_mft" \/ ret = Panicked
       THEN result' = ret /\ pc' = "done"
       ELSE result' = result /\ pc' = "after_mft"

\* the checks of the path before anything else is done (mft_scan.rs:328-335);
\* NoResult: the path passed
mft_path_check(kind) ==
    IF kind = "missing" THEN Err("InvalidPath", "path does not exist")
    ELSE IF kind # "volume_root" THEN Err("InvalidPath", "not a volume root")
    ELSE NoResult

\* scan_volume_mft up to the opening of the volume and, with a progress callback,
\* the start of the producer thread (mft_scan.rs:321-372, 504-506)
MftStart ==
    /\ pc = "mft_start"
    /\ IF mft_path_check(pathKind) # NoResult
       THEN /\ MftReturns(mft_path_check(pathKind))
            /\ UNCHANGED <<cb_invoked, cb_counts, volumeOpened>>
       ELSE /\ cb_invoked' = (cb_invoked \/ hasProgress)
            /\ cb_counts' = IF hasProgress THEN Append(cb_counts, 0) ELSE cb_counts
            /\ volumeOpened' = TRUE
            /\ IF openOutcome = "ok"
               THEN /\ pc' = IF hasProgress THEN "mft_recv" ELSE "mft_enum"
                    /\ UNCHANGED <<mft_ret, result>>
               ELSE MftReturns(to_disk_analyzer_error(openOutcome))
    /\ UNCHANGED <<inputs, mftState, pipe, tasks, builder, recursive_sizes, tree, heap>>

\* the state of the record indexer
Indexed ==
    [records |-> records, child_index |-> child_index, direct_sizes |-> direct_sizes,
     counter |-> counter, events |-> <<>>]

RemainingSlots == { i \in volume : i >= next_slot }
NextSlot == CHOOSE i \in RemainingSlots : \A j \in RemainingSlots : i <= j

\* one call of the iterate_files callback of the scan without a progress callback
\* (mft_scan.rs:514-550)
MftEnumerate ==
    /\ pc = "mft_enum"
    /\ RemainingSlots # {}
    /\ \E r \in {IndexRecord(Indexed, MftSlots[NextSlot], FALSE)} :
          /\ records' = r.records
          /\ child_index' = r.child_index
          /\ direct_sizes' = r.direct_sizes
          /\ counter' = r.counter
    /\ next_slot' = NextSlot + 1
    /\ UNCHANGED <<inputs, pc, cb_invoked, cb_counts, volumeOpened, pipe, tasks, builder,
                   recursive_sizes, tree, heap, mft_ret, result>>

\* how many build-progress events a tree build of `built` calls of
\* build_subtree_from_indices makes (mft_scan.rs:871-879): an event needs last_reported
\* to advance by BUILD_TREE_PROGRESS_EVERY, and the call that brings nodes_built to
\* BUILD_TREE_PROGRESS_EVERY reports unless another call already has
BuildEventCounts(progress, built) ==
    IF ~progress THEN {0}
    ELSE { k \in 0..(built \div BUILD_TREE_PROGRESS_EVERY) :
             built >= BUILD_TREE_PROGRESS_EVERY => k >= 1 }

\* mutant of TreeBuildEvents: each event reports the nodes built so far
TreeBuildEventsLive(display_count, k) == [i \in 1..k |-> i * BUILD_TREE_PROGRESS_EVERY]

\* the counts of k build-progress events: cb(display_count, ..) (mft_scan.rs:877)
TreeBuildEvents(display_count, k) == [i \in 1..k |-> display_count]

\* compute_recursive_sizes and build_tree_from_mft_records (mft_scan.rs:554-583);
\* display_count is n_records, the counter at the end of enumeration.  With overflow
\* checks a sum that exceeds the size type panics.
MftBuildTree ==
    /\ pc = "mft_indexed" \/ (pc = "mft_enum" /\ RemainingSlots = {})
    /\ \E c \in {compute_recursive_sizes(records, child_index, direct_sizes,
                                          volume_root_trim, volume_root_key)} :
       \E t \in {build_tree_from_mft_records(records, child_index, c.sizes,
                     volume_root_trim, volume_root_key, MftRootName, RootPathStr,
                     shallow_dirs)} :
          IF overflow_checks /\ c.overflow
          THEN /\ MftReturns(Panicked)
               /\ UNCHANGED <<recursive_sizes, tree, cb_invoked, cb_counts>>
          ELSE \E k \in BuildEventCounts(hasProgress, t.nodes_built) :
                  /\ recursive_sizes' = c.sizes
                  /\ cb_invoked' = (cb_invoked \/ k > 0)
                  /\ cb_counts' = cb_counts \o TreeBuildEvents(counter, k)
                  /\ IF overflow_checks /\ t.overflow
                     THEN MftReturns(Panicked) /\ UNCHANGED tree
                     ELSE tree' = t /\ pc' = "mft_built" /\ UNCHANGED <<mft_ret, result>>
    /\ UNCHANGED <<inputs, volumeOpened, mftState, pipe, tasks, builder, heap>>
\* mutant of MftScanResult: the result carries a warning
MftScanResultWithWarning ==
    [root |-> prune_tree_for_display(tree.root, 0),
     file_count |-> tree.file_count,
     total_size |-> tree.total_size,
     scan_warning |-> SomeStr(<<"MFT scan", "ok">>),
     top_files |-> SomeVec(build_top_files_from_records(records, TOP_FILES_FOR_RESULT))]

\* the ScanResult of scan_volume_mft (mft_scan.rs:613-625)
MftScanResult ==
    [root |-> prune_tree_for_display(tree.root, 0),
     file_count |-> tree.file_count,
     total_size |-> tree.total_size,
     scan_warning |-> NoneStr,
     top_files |-> SomeVec(build_top_files_from_records(records, TOP_FILES_FOR_RESULT))]

MftFinish ==
    /\ pc = "mft_built"
    /\ MftReturns(Ok(MftScanResult))
    /\ UNCHANGED <<inputs, cb_invoked, cb_counts, volumeOpened, mftState, pipe, tasks, builder,
                   recursive_sizes, tree, heap>>

\* mutant of top_files_path_check: only the existence of the path is checked
top_files_exists_check(kind) ==
    IF kind = "missing" THEN Err("InvalidPath", "path does not exist") ELSE NoResult

\* the checks of the path before anything else is done (mft_scan.rs:203-211)
top_files_path_check(kind) ==
    IF kind = "missing" THEN Err("InvalidPath", "path does not exist")
    ELSE IF kind # "volume_root" THEN Err("InvalidPath", "not a volume root")
    ELSE NoResult

\* scan_volume_mft_top_files up to Mft::new (mft_scan.rs:203-225)
TopStart ==
    /\ api = "scan_volume_mft_top_files"
    /\ pc = "start"
    /\ IF top_files_path_check(pathKind) # NoResult
       THEN /\ result' = top_files_path_check(pathKind)
            /\ pc' = "done"
            /\ UNCHANGED volumeOpened
       ELSE /\ volumeOpened' = TRUE
            /\ IF openOutcome = "ok"
               THEN pc' = "top_iter" /\ UNCHANGED result
               ELSE result' = to_disk_analyzer_error(openOutcome) /\ pc' = "done"
    /\ UNCHANGED <<inputs, cb_invoked, cb_counts, mftState, pipe, tasks, builder, recursive_sizes,
                   tree, heap, mft_ret>>

TopIterate ==
    /\ pc = "top_iter"
    /\ RemainingSlots # {}
    /\ LET r == TopVisit(MftSlots[NextSlot])
       IN /\ heap' = r.heap
          /\ counter' = r.counter
          /\ cb_invoked' = (cb_invoked \/ r.cb)
          /\ cb_counts' = IF r.cb THEN Append(cb_counts, counter) ELSE cb_counts
    /\ next_slot' = NextSlot + 1
    /\ UNCHANGED <<inputs, pc, volumeOpened, records, child_index, direct_sizes, pipe,
                   tasks, builder, recursive_sizes, tree, mft_ret, result>>

\* the final callback and the sorted list (mft_scan.rs:254-263)
TopFinish ==
    /\ pc = "top_iter"
    /\ RemainingSlots = {}
    /\ cb_invoked' = (cb_invoked \/ hasProgress)
    /\ cb_counts' = IF hasProgress THEN Append(cb_counts, counter) ELSE cb_counts
    /\ \E list \in TopLists(heap) : result' = Ok(list)
    /\ pc' = "done"
    /\ UNCHANGED <<inputs, volumeOpened, mftState, pipe, tasks, builder, recursive_sizes, tree, heap,
                   mft_ret>>

(***************************************************************************)
(* MFT load with a progress callback (mft_scan.rs:357-502): a producer     *)
(* thread reads $BITMAP and streams $DATA into a bounded channel, the      *)
(* caller's thread receives, indexes the records each Data chunk completes *)
(* and reports progress.  Record i of the MFT (0-based in the code) is     *)
(* slot i + 1.                                                             *)
(***************************************************************************)
QUEUE_CAP == 4
\* volume.file_record_size, in bytes
FileRecordSize == 2
\* the length of the $DATA attribute, and the ways it is cut into Data chunks; the
\* last one has a byte after the last whole record
DataBytes == Len(MftSlots) * FileRecordSize
Chunkings ==
    { <<DataBytes>>, <<3, DataBytes - 3>>, <<5, 6, DataBytes - 11>>, <<DataBytes - 1, 2>> }

Msg(tag, v) == [tag |-> tag, v |-> v]

\* mutant of ProducerMessages: the volume is sent after the first Data chunk
ProducerMessagesVolumeLate(rs, lens) ==
    << Msg("RecordSize", rs), Msg("Bitmap", 0), Msg("TotalSize", SumSeq(lens)),
       Msg("Data", lens[1]), Msg("Volume", 0) >>
    \o [i \in 1..(Len(lens) - 1) |-> Msg("Data", lens[i + 1])]

\* what the producer sends when nothing fails (mft_scan.rs:373-382)
ProducerMessages(rs, lens) ==
    << Msg("RecordSize", rs), Msg("Bitmap", 0), Msg("Volume", 0),
       Msg("TotalSize", SumSeq(lens)) >>
    \o [i \in 1..Len(lens) |-> Msg("Data", lens[i])]

Messages == ProducerMessages(FileRecordSize, chunks)

\* where the producer fails: before sending message `before` (2: while reading
\* $BITMAP; 4 and later: while streaming $DATA, Len + 1 being after the last chunk)
NoFault == [before |-> 0, kind |-> "none"]
Faults(lens) ==
    {NoFault}
    \cup { [before |-> 2, kind |-> k] : k \in {"error", "missing", "panic"} }
    \cup { [before |-> i, kind |-> k] : i \in 4..(Len(lens) + 5), k \in {"error", "panic"} }

\* what the producer's closure returns (mft_scan.rs:374-384)
ProducerReturn(f, sent) ==
    IF f.before # sent + 1 THEN Ok(<<>>)
    ELSE CASE f.kind = "error" -> to_disk_analyzer_error("IOError")
           [] f.kind = "missing" -> Err("InvalidPath", "missing $BITMAP")
           [] OTHER -> Panicked

\* tx.send(msg): waits while the channel holds QUEUE_CAP messages
ProducerSend ==
    /\ pc = "mft_recv"
    /\ producer.pc = "run"
    /\ producer.sent < Len(Messages)
    /\ fault.before # producer.sent + 1
    /\ Len(chan) < QUEUE_CAP
    /\ chan' = Append(chan, Messages[producer.sent + 1])
    /\ producer' = [producer EXCEPT !.sent = @ + 1]
    /\ UNCHANGED <<inputs, pc, cb_invoked, cb_counts, volumeOpened, mftState, received,
                   consumer, producer_joined, tasks, builder, recursive_sizes, tree, heap, mft_ret, result>>

\* the producer thread ends: it returns or panics, and tx is dropped
ProducerExit ==
    /\ pc = "mft_recv"
    /\ producer.pc = "run"
    /\ fault.before = producer.sent + 1 \/ producer.sent = Len(Messages)
    /\ producer' = [producer EXCEPT !.pc = "exited",
                                    !.ret = ProducerReturn(fault, producer.sent)]
    /\ UNCHANGED <<inputs, pc, cb_invoked, cb_counts, volumeOpened, mftState, chan, received,
                   consumer, producer_joined, tasks, builder, recursive_sizes, tree, heap, mft_ret, result>>

\* mutant of IndexRange: the range starts one record late
RECURSIVE IndexRangeSkipFirst(_, _, _, _)
IndexRangeSkipFirst(st, V, lo, hi) ==
    IF lo >= hi THEN st
    ELSE IndexRangeSkipFirst(IF lo + 1 \in V THEN IndexRecord(st, MftSlots[lo + 1], TRUE) ELSE st,
                             V, lo + 1, hi)

\* mft_ref.iterate_files_range(start_idx, n, ..): the callback runs on the records in
\* use among slots lo..hi
RECURSIVE IndexRange(_, _, _, _)
IndexRange(st, V, lo, hi) ==
    IF lo > hi THEN st
    ELSE IndexRange(IF lo \in V THEN IndexRecord(st, MftSlots[lo], TRUE) ELSE st,
                    V, lo + 1, hi)

\* the Data arm (mft_scan.rs:408-483) for a chunk that brings data.len() to len, upto
\* being len / record_size: what it leaves in the consumer's variables, the indexer's state
\* and next_slot
ConsumeData(cons, st, V, next, len, upto) ==
    IF cons.record_size > 0 /\ cons.bitmap
    THEN [consumer |-> [cons EXCEPT !.data_len = len, !.last_record_index = upto],
          st |-> IF cons.volume THEN IndexRange(st, V, cons.last_record_index + 1, upto)
                 ELSE st,
          next_slot |-> IF cons.volume THEN upto + 1 ELSE next]
    ELSE [consumer |-> [cons EXCEPT !.data_len = len], st |-> st, next_slot |-> next]

\* the match on a received message (mft_scan.rs:400-484)
Consume(cons, st, V, next, msg) ==
    CASE msg.tag = "RecordSize" ->
            [consumer |-> [cons EXCEPT !.record_size = msg.v], st |-> st, next_slot |-> next]
      [] msg.tag = "Bitmap" ->
            [consumer |-> [cons EXCEPT !.bitmap = TRUE], st |-> st, next_slot |-> next]
      [] msg.tag = "Volume" ->
            [consumer |-> [cons EXCEPT !.volume = TRUE], st |-> st, next_slot |-> next]
      [] msg.tag = "TotalSize" ->
            [consumer |-> [cons EXCEPT !.total_size = msg.v], st |-> st, next_slot |-> next]
      [] OTHER ->
            ConsumeData(cons, st, V, next, cons.data_len + msg.v,
                        IF cons.record_size > 0
                        THEN (cons.data_len + msg.v) \div cons.record_size ELSE 0)

\* the counts the handling of msg passes to the callback: the enumeration events,
\* and after a Data chunk the "Loading MFT" event with the counter
ReceiveEvents(msg, st) == IF msg.tag = "Data" THEN Append(st.events, st.counter) ELSE <<>>

\* rx.recv() returns a message and the loop body handles it
MftReceive ==
    /\ pc = "mft_recv"
    /\ chan # <<>>
    /\ chan' = Tail(chan)
    /\ received' = Append(received, Head(chan))
    /\ \E r \in {Consume(consumer, Indexed, volume, next_slot, Head(chan))} :
          /\ consumer' = r.consumer
          /\ next_slot' = r.next_slot
          /\ records' = r.st.records
          /\ child_index' = r.st.child_index
          /\ direct_sizes' = r.st.direct_sizes
          /\ counter' = r.st.counter
          /\ cb_counts' = cb_counts \o ReceiveEvents(Head(chan), r.st)
          /\ cb_invoked' = (cb_invoked \/ Head(chan).tag = "Data")
    /\ UNCHANGED <<inputs, pc, volumeOpened, producer, producer_joined, tasks, builder, recursive_sizes, tree,
                   heap, mft_ret, result>>

\* mutant of SendersDropped: a sender outlives the producer, the channel never disconnects
SenderKept == FALSE

\* every Sender of the channel is dropped: tx is moved into the producer's closure and
\* dropped when the closure returns or unwinds (mft_scan.rs:371-385)
SendersDropped == producer.pc = "exited"

\* rx.recv() fails: the channel is empty and the producer has dropped tx.  The code
\* after the loop (mft_scan.rs:486-502)
MftJoin ==
    /\ pc = "mft_recv"
    /\ chan = <<>>
    /\ SendersDropped
    /\ IF ~consumer.volume
       THEN /\ MftReturns(Err("InvalidPath", "MFT volume not received from producer"))
            /\ UNCHANGED <<producer_joined, cb_counts>>
       ELSE IF ~consumer.bitmap
       THEN /\ MftReturns(Err("InvalidPath", "MFT bitmap not received"))
            /\ UNCHANGED <<producer_joined, cb_counts>>
       ELSE /\ producer_joined' = TRUE
            /\ IF producer.ret = Panicked
               THEN /\ MftReturns(Err("Io", "MFT producer thread panicked"))
                    /\ UNCHANGED cb_counts
               ELSE IF producer.ret.state = "Err"
               THEN MftReturns(producer.ret) /\ UNCHANGED cb_counts
               ELSE /\ pc' = "mft_indexed"
                    /\ cb_counts' = Append(cb_counts, counter)
                    /\ UNCHANGED <<mft_ret, result>>
    /\ UNCHANGED <<inputs, cb_invoked, volumeOpened, mftState, producer, chan, received,
                   consumer, tasks, builder, recursive_sizes, tree, heap>>


(***************************************************************************)
(* The walker's counter and callbacks, call by call (scanner.rs:55-58,     *)
(* 183-187).  Every call of build_tree or dir_size_only that gets as far   *)
(* as counter.fetch_add is a task; the calls for the entries of one        *)
(* directory run on rayon's worker threads (par_iter, scanner.rs:107-174), *)
(* so the tasks' steps interleave.  WalkerScan above takes the scan as one *)
(* step and records only whether the callback ran.                         *)
(***************************************************************************)
\* the entries build_tree keeps of directory p (scanner.rs:92-104)
Kept(p) ==
    LET e == Take(SortEntries(ReadDir(p)), MAX_CHILDREN_PER_DIR)
    IN { e[i] : i \in 1..Len(e) }

\* build_tree(p) at this depth lists p and comes to the counter (scanner.rs:83-91)
Lists(p, depth) ==
    /\ Entry(p).kind = "dir" /\ Entry(p).deny = "none"
    /\ depth < MAX_DEPTH
    /\ ~(p = <<>> /\ rootListDenied)

\* the calls of build_tree below and at p that come to the counter
RECURSIVE BuildTasks(_, _, _)
BuildTasks(p, depth, shallow) ==
    IF ~Lists(p, depth) THEN {}
    ELSE {p} \cup UNION { BuildTasks(q, depth + 1, shallow) :
                            q \in { r \in Kept(p) : ~IsShallowDir(r, shallow) } }

\* the directories build_tree hands to dir_size_only (scanner.rs:110-124)
ShallowRoots(shallow) ==
    UNION { { q \in Kept(p) : IsShallowDir(q, shallow) } : p \in BuildTasks(<<>>, 0, shallow) }

\* the calls of dir_size_only(p) that come to the counter, in the order they do: the
\* directories among p's entries one after the other, then p (scanner.rs:46-58)
RECURSIVE SizeOrder(_)
RECURSIVE SizeOrderOf(_)
SizeOrderOf(dirs) ==
    IF dirs = <<>> THEN <<>> ELSE SizeOrder(Head(dirs)) \o SizeOrderOf(Tail(dirs))
SizeOrder(p) ==
    IF Entry(p).deny = "list" THEN <<>>
    ELSE SizeOrderOf(SortEntries({ q \in ReadDir(p) : PathIsDir(q) })) \o <<p>>

\* a task: where it stands (todo, added, loaded, done), what it adds to the counter,
\* the value it read, and the task of the same thread that has to finish before it
Task(add, after) == [pc |-> "todo", add |-> add, seen |-> 0, after |-> after]
NoTask == << <<"/">> >>

SizeTasksOf(order) ==
    [p \in { order[i] : i \in 1..Len(order) } |->
        Task(1, LET i == CHOOSE k \in 1..Len(order) : order[k] = p
                IN IF i = 1 THEN NoTask ELSE order[i - 1])]

RECURSIVE SizeTasks(_)
SizeTasks(roots) ==
    IF roots = {} THEN EmptyMap
    ELSE LET q == CHOOSE x \in roots : TRUE
         IN SizeTasksOf(SizeOrder(q)) @@ SizeTasks(roots \ {q})

\* counter.fetch_add(file_count): file_count is the count build_tree returns
WalkTasks(shallow) ==
    [p \in BuildTasks(<<>>, 0, shallow) |->
        Task(build_tree(p, RootName, Len(p), shallow).cnt, NoTask)]
    @@ SizeTasks(ShallowRoots(shallow))

\* the calls made within the call p have returned
ChildrenDone(p) ==
    \A q \in DOMAIN tasks : Len(q) > Len(p) /\ StartsWith(q, p) => tasks[q].pc = "done"
Ready(p) ==
    /\ ChildrenDone(p)
    /\ tasks[p].after # NoTask => tasks[tasks[p].after].pc = "done"

\* scan_path_with_progress of an existing path, up to the call of build_tree
\* (scanner.rs:217-238)
WalkerSpawn ==
    /\ api = "scan_path_with_progress"
    /\ pc = "walk_start"
    /\ pathKind = "dir"
    /\ tasks' = WalkTasks(shallow_dirs)
    /\ pc' = "walking"
    /\ UNCHANGED <<inputs, cb_invoked, cb_counts, volumeOpened, mftState, pipe, builder,
                   recursive_sizes, tree, heap, mft_ret, result>>

\* counter.fetch_add(..) (scanner.rs:55, 183)
TaskFetchAdd(p) ==
    /\ pc = "walking"
    /\ tasks[p].pc = "todo"
    /\ Ready(p)
    /\ counter' = counter + tasks[p].add
    /\ tasks' = [tasks EXCEPT ![p].pc = IF hasProgress THEN "added" ELSE "done"]
    /\ UNCHANGED <<inputs, pc, cb_invoked, cb_counts, volumeOpened, next_slot, records,
                   child_index, direct_sizes, pipe, builder, recursive_sizes, tree, heap, mft_ret, result>>

\* counter.load(..) (scanner.rs:57, 185)
TaskLoad(p) ==
    /\ pc = "walking"
    /\ tasks[p].pc = "added"
    /\ tasks' = [tasks EXCEPT ![p].pc = "loaded", ![p].seen = counter]
    /\ UNCHANGED <<inputs, pc, cb_invoked, cb_counts, volumeOpened, mftState, pipe, builder,
                   recursive_sizes, tree, heap, mft_ret, result>>

\* cb(total_so_far, ..) (scanner.rs:57, 186)
TaskCallback(p) ==
    /\ pc = "walking"
    /\ tasks[p].pc = "loaded"
    /\ cb_counts' = Append(cb_counts, tasks[p].seen)
    /\ cb_invoked' = TRUE
    /\ tasks' = [tasks EXCEPT ![p].pc = "done"]
    /\ UNCHANGED <<inputs, pc, volumeOpened, mftState, pipe, builder, recursive_sizes, tree, heap,
                   mft_ret, result>>

\* the root call of build_tree returns and the ScanResult is made (scanner.rs:239-255)
WalkerReturn ==
    /\ pc = "walking"
    /\ \A p \in DOMAIN tasks : tasks[p].pc = "done"
    /\ \E w \in {WalkerResult} : result' = w.ret
    /\ pc' = "done"
    /\ UNCHANGED <<inputs, cb_invoked, cb_counts, volumeOpened, mftState, pipe, tasks, builder,
                   recursive_sizes, tree, heap, mft_ret>>

(***************************************************************************)
(* The tree build of scan_volume_mft thread by thread (mft_scan.rs:660-    *)
(* 708, 871-879).  par_iter hands each child of the volume root to a       *)
(* thread; the thread makes the calls of build_subtree_from_indices of     *)
(* that child one after another, and each call ends with a fetch_add on    *)
(* nodes_built, a load of last_reported and, if the advance is large       *)
(* enough, a compare_exchange on last_reported.  The atomics are Relaxed:  *)
(* a load returns some value of the variable's modification order not      *)
(* older than what the thread has seen; a read-modify-write acts on the    *)
(* latest.  MftBuildTree above takes the build as one step.                *)
(***************************************************************************)
NotBuilding == [nodes_built |-> 0, last_reported |-> <<0>>, threads |-> <<>>]

\* last_reported: the last value of its modification order
Latest(b) == b.last_reported[Len(b.last_reported)]

\* the whole MFT indexed, as the receive loop leaves it when the producer does not fail
\* (mft_scan.rs:399-485)
LoadedIndex == IndexRange(Indexed, volume, 1, Len(MftSlots))

\* the counts passed to the callback up to the tree build: the start, the enumeration
\* events, "Loading MFT" and the count after the loop (mft_scan.rs:366, 424-438, 500)
LoadCounts(st) == <<0>> \o st.events \o <<st.counter, st.counter>>

\* one thread per child of the volume root, with the calls of build_subtree_from_indices
\* it has to make (mft_scan.rs:663-708)
BuildThreads(res) ==
    [k \in 1..Len(res) |-> [pc |-> "run", left |-> res[k].built, cur |-> 0, last |-> 0, seen |-> 1]]

\* scan_volume_mft with a progress callback up to the call of
\* build_tree_from_mft_records (mft_scan.rs:357-583)
MftLoad ==
    /\ api = "scan_volume_mft"
    /\ pc = "mft_load"
    /\ \E st \in {LoadedIndex} :
       \E c \in {compute_recursive_sizes(st.records, st.child_index, st.direct_sizes,
                                          volume_root_trim, volume_root_key)} :
          /\ records' = st.records
          /\ child_index' = st.child_index
          /\ direct_sizes' = st.direct_sizes
          /\ counter' = st.counter
          /\ cb_counts' = LoadCounts(st)
          /\ recursive_sizes' = c.sizes
          /\ builder' = [NotBuilding EXCEPT !.threads =
                            BuildThreads(RootChildren(st.records, st.child_index, c.sizes,
                                DirectIndices(st.child_index, volume_root_trim, volume_root_key),
                                shallow_dirs))]
    /\ next_slot' = Len(MftSlots) + 1
    /\ producer' = [pc |-> "exited", sent |-> Len(Messages), ret |-> Ok(<<>>)]
    /\ received' = Messages
    /\ consumer' = [record_size |-> FileRecordSize, bitmap |-> TRUE, volume |-> TRUE,
                    data_len |-> DataBytes, total_size |-> DataBytes,
                    last_record_index |-> Len(MftSlots)]
    /\ producer_joined' = TRUE
    /\ cb_invoked' = TRUE
    /\ volumeOpened' = TRUE
    /\ pc' = "mft_building"
    /\ UNCHANGED <<inputs, chan, tasks, tree, heap, mft_ret, result>>

\* nodes_built.fetch_add(1, Relaxed) + 1 (mft_scan.rs:871)
BuildFetchAdd(w) ==
    /\ pc = "mft_building"
    /\ builder.threads[w].pc = "run"
    /\ builder.threads[w].left > 0
    /\ builder' = [builder EXCEPT !.nodes_built = @ + 1,
                                  !.threads[w].cur = builder.nodes_built + 1,
                                  !.threads[w].left = @ - 1,
                                  !.threads[w].pc = "added"]
    /\ UNCHANGED <<inputs, pc, cb_invoked, cb_counts, volumeOpened, mftState, pipe, tasks,
                   recursive_sizes, tree, heap, mft_ret, result>>

\* last_reported.load(Relaxed) (mft_scan.rs:873)
BuildLoad(w) ==
    /\ pc = "mft_building"
    /\ builder.threads[w].pc = "added"
    /\ \E i \in builder.threads[w].seen..Len(builder.last_reported) :
          builder' = [builder EXCEPT !.threads[w].last = builder.last_reported[i],
                                     !.threads[w].seen = i,
                                     !.threads[w].pc = "loaded"]
    /\ UNCHANGED <<inputs, pc, cb_invoked, cb_counts, volumeOpened, mftState, pipe, tasks,
                   recursive_sizes, tree, heap, mft_ret, result>>

\* mutant of compare_exchange: a plain store, which always succeeds
store_unconditionally(current, expected) == TRUE

\* last_reported.compare_exchange(last, cur, ..).is_ok() (mft_scan.rs:875)
compare_exchange(current, expected) == current = expected

\* cur.saturating_sub(last) (mft_scan.rs:874)
saturating_sub(a, b) == IF a >= b THEN a - b ELSE 0

\* the test of the advance, the compare_exchange and the callback (mft_scan.rs:874-878)
BuildReport(w) ==
    /\ pc = "mft_building"
    /\ builder.threads[w].pc = "loaded"
    /\ IF /\ saturating_sub(builder.threads[w].cur, builder.threads[w].last)
               >= BUILD_TREE_PROGRESS_EVERY
          /\ compare_exchange(Latest(builder), builder.threads[w].last)
       THEN /\ builder' = [builder EXCEPT
                              !.last_reported = Append(@, builder.threads[w].cur),
                              !.threads[w].seen = Len(builder.last_reported) + 1,
                              !.threads[w].pc = "run"]
            /\ cb_counts' = Append(cb_counts, counter)
       ELSE /\ builder' = [builder EXCEPT !.threads[w].pc = "run"]
            /\ UNCHANGED cb_counts
    /\ UNCHANGED <<inputs, pc, cb_invoked, volumeOpened, mftState, pipe, tasks,
                   recursive_sizes, tree, heap, mft_ret, result>>

\* the threads have finished: collect, the sums and the root (mft_scan.rs:708-725)
MftBuildEnd ==
    /\ pc = "mft_building"
    /\ \A w \in DOMAIN builder.threads :
          builder.threads[w].pc = "run" /\ builder.threads[w].left = 0
    /\ \E t \in {build_tree_from_mft_records(records, child_index, recursive_sizes,
                     volume_root_trim, volume_root_key, MftRootName, RootPathStr,
                     shallow_dirs)} :
          tree' = t
    /\ pc' = "mft_built"
    /\ UNCHANGED <<inputs, cb_invoked, cb_counts, volumeOpened, mftState, pipe, tasks, builder,
                   recursive_sizes, heap, mft_ret, result>>
(***************************************************************************)
(* Dispatcher: scan(path, progress, shallow_dirs, use_mft), the four-      *)
(* argument scan_path_with_progress that commands/scan.rs:51-53 and        *)
(* tests/scan_timing.rs call.                                              *)
(***************************************************************************)
\* Display of DiskAnalyzerError (common/src/error.rs:5-16)
ErrorText(e) ==
    CASE e.kind = "Io" -> <<"IO error: ", e.msg>>
      [] e.kind = "PermissionDenied" -> <<"Permission denied: ", e.msg>>
      [] e.kind = "InvalidPath" -> <<"Invalid path: ", e.msg>>
      [] OTHER -> <<"Configuration error: ", e.msg>>

\* the walker's result as the dispatcher returns it
DispatchWalker(w, warning) ==
    IF w.ret.state = "Ok"
    THEN Ok([res |-> [root |-> w.ret.value.root,
                      file_count |-> w.ret.value.file_count,
                      total_size |-> w.ret.value.total_size,
                      scan_warning |-> warning,
                      top_files |-> NoneVec],
             used_mft |-> FALSE])
    ELSE w.ret

ScanDispatch ==
    /\ api = "scan"
    /\ pc = "start"
    /\ IF pathKind = "missing"
       THEN /\ result' = Err("InvalidPath", "path does not exist")
            /\ pc' = "done"
            /\ UNCHANGED cb_invoked
       ELSE IF use_mft /\ pathKind = "volume_root"
       THEN pc' = "mft_start" /\ UNCHANGED <<result, cb_invoked>>
       ELSE /\ \E w \in {WalkerResult} :
                  /\ result' = DispatchWalker(w, NoneStr)
                  /\ cb_invoked' = (cb_invoked \/ w.cbs > 0)
            /\ pc' = "done"
    /\ UNCHANGED <<inputs, cb_counts, volumeOpened, mftState, pipe, tasks, builder, recursive_sizes,
                   tree, heap, mft_ret>>

ScanAfterMft ==
    /\ api = "scan"
    /\ pc = "after_mft"
    /\ IF mft_ret.state = "Ok"
       THEN /\ result' = Ok([res |-> mft_ret.value, used_mft |-> TRUE])
            /\ UNCHANGED cb_invoked
       ELSE \E w \in {WalkerResult} :
               /\ result' = DispatchWalker(w, SomeStr(ErrorText(mft_ret)))
               /\ cb_invoked' = (cb_invoked \/ w.cbs > 0)
    /\ pc' = "done"
    /\ UNCHANGED <<inputs, cb_counts, volumeOpened, mftState, pipe, tasks, builder, recursive_sizes,
                   tree, heap, mft_ret>>

(***************************************************************************)
(* Initial states and specifications.                                      *)
(***************************************************************************)
OpenOutcomes == {"ok", "ElevationError", "IOError", "Corrupt"}

Fresh ==
    /\ cb_invoked = FALSE
    /\ cb_counts = <<>>
    /\ volumeOpened = FALSE
    /\ next_slot = 1
    /\ records = <<>>
    /\ child_index = EmptyMap
    /\ direct_sizes = EmptyMap
    /\ counter = 0
    /\ producer = [pc |-> "run", sent |-> 0, ret |-> NoResult]
    /\ chan = <<>>
    /\ received = <<>>
    /\ consumer = [record_size |-> 0, bitmap |-> FALSE, volume |-> FALSE, data_len |-> 0,
                   total_size |-> 0, last_record_index |-> 0]
    /\ producer_joined = FALSE
    /\ tasks = EmptyMap
    /\ builder = NotBuilding
    /\ recursive_sizes = EmptyMap
    /\ tree = NoResult
    /\ heap = <<>>
    /\ mft_ret = NoResult
    /\ result = NoResult

\* the MFT arrives in one chunk, the producer does not fail, sums are not checked
PlainLoad == chunks = <<DataBytes>> /\ fault = NoFault /\ overflow_checks = FALSE

NoVolume == volume = {} /\ openOutcome = "ok" /\ n = 0 /\ use_mft = FALSE /\ PlainLoad

\* a call outside the trees and volumes in question: one representative input
Elsewhere ==
    /\ fs = {} /\ rootListDenied = FALSE /\ shallow_dirs = TRUE /\ hasProgress = TRUE
    /\ volume = ForeignSlots /\ openOutcome = "ok" /\ n = 0 /\ use_mft = FALSE
    /\ PlainLoad

InitWalker ==
    /\ pc = "start"
    /\ api \in {"scan_path", "scan_path_with_progress"}
    /\ pathKind \in {"missing", "dir"}
    /\ IF pathKind = "missing"
       THEN Elsewhere
       ELSE /\ NoVolume
            /\ fs \in AllFS
            /\ shallow_dirs \in BOOLEAN
            /\ hasProgress \in BOOLEAN
            /\ rootListDenied \in BOOLEAN
            /\ api = "scan_path" => shallow_dirs /\ ~hasProgress
            /\ ~hasProgress \/ rootListDenied => fs \in SmallFS /\ shallow_dirs
    /\ Fresh

NoTree == fs = {} /\ rootListDenied = FALSE

\* the volumes scanned with a progress callback
ProgressVolumes == SmallVolumes \cup { ForeignSlots \cup {11, 13, 16} }
Malformed(V) == \E i \in V : MftSlots[i].size = U64_MAX

InitMft ==
    /\ pc = "mft_start"
    /\ api = "scan_volume_mft"
    /\ pathKind \in {"missing", "dir", "volume_root"}
    /\ IF pathKind # "volume_root"
       THEN Elsewhere
       ELSE /\ NoTree /\ n = 0 /\ use_mft = FALSE
            /\ volume \in Volumes
            /\ shallow_dirs \in BOOLEAN
            /\ hasProgress \in BOOLEAN
            /\ openOutcome \in OpenOutcomes
            /\ overflow_checks \in BOOLEAN
            /\ chunks \in Chunkings
            /\ fault \in Faults(chunks)
            /\ hasProgress => volume \in ProgressVolumes
            /\ overflow_checks => Malformed(volume)
            /\ ~hasProgress => chunks = <<DataBytes>> /\ fault = NoFault
            /\ fault # NoFault => shallow_dirs /\ ~overflow_checks
            /\ openOutcome # "ok" => volume \in SmallVolumes /\ shallow_dirs /\ PlainLoad
    /\ Fresh

InitTop ==
    /\ pc = "start"
    /\ api = "scan_volume_mft_top_files"
    /\ pathKind \in {"missing", "dir", "volume_root"}
    /\ IF pathKind # "volume_root"
       THEN Elsewhere
       ELSE /\ NoTree /\ shallow_dirs = TRUE /\ use_mft = FALSE /\ PlainLoad
            /\ volume \in Volumes
            /\ n \in 0..MaxN
            /\ hasProgress \in BOOLEAN
            /\ openOutcome \in OpenOutcomes
            /\ ~hasProgress \/ openOutcome # "ok" => volume \in SmallVolumes
    /\ Fresh

InitScan ==
    /\ pc = "start"
    /\ api = "scan"
    /\ pathKind \in {"missing", "dir", "volume_root"}
    /\ IF pathKind = "missing"
       THEN Elsewhere
       ELSE /\ n = 0 /\ PlainLoad
            /\ hasProgress \in BOOLEAN
            /\ use_mft \in BOOLEAN
            /\ shallow_dirs \in BOOLEAN
            /\ fs \in SmallFS
            /\ rootListDenied \in BOOLEAN
            /\ volume \in SmallVolumes
            /\ openOutcome \in OpenOutcomes
            /\ ~hasProgress => use_mft /\ shallow_dirs
    /\ Fresh

\* the trees whose scan is followed call by call
ParFS ==
    { { << <<"d">> >>, << <<"t", "a", "r", "g", "e", "t">> >> },
      { << <<"a">> >>, << <<"d">> >>, << <<"d">>, <<"a">> >>, << <<"d">>, <<"d">> >>, << <<"t", "a", "r", "g", "e", "t">> >>,
        << <<"t", "a", "r", "g", "e", "t">>, <<"a">> >> },
      { << <<"d">> >>, << <<"d">>, <<"d">> >>, << <<"d">>, <<"T", "a", "r", "g", "e", "t">> >>, << <<"d">>, <<"T", "a", "r", "g", "e", "t">>, <<"d">> >>,
        << <<".", "g", "i", "t">> >> },
      UPaths }

InitWalkerPar ==
    /\ pc = "walk_start"
    /\ api = "scan_path_with_progress"
    /\ pathKind = "dir"
    /\ NoVolume
    /\ fs \in ParFS
    /\ shallow_dirs \in BOOLEAN
    /\ hasProgress \in BOOLEAN
    /\ rootListDenied = FALSE
    /\ ~hasProgress => fs # UPaths
    /\ Fresh

NextWalkerPar ==
    \/ WalkerSpawn
    \/ \E p \in DOMAIN tasks : TaskFetchAdd(p) \/ TaskLoad(p) \/ TaskCallback(p)
    \/ WalkerReturn

\* the volumes whose tree build is followed thread by thread
BuildVolumes == { ForeignSlots \cup {1, 2, 11, 12}, ForeignSlots \cup {1, 2, 3, 4, 11, 12, 13} }

InitBuild ==
    /\ pc = "mft_load"
    /\ api = "scan_volume_mft"
    /\ pathKind = "volume_root"
    /\ NoTree /\ n = 0 /\ use_mft = FALSE /\ openOutcome = "ok" /\ PlainLoad
    /\ volume \in BuildVolumes
    /\ shallow_dirs \in BOOLEAN
    /\ hasProgress = TRUE
    /\ Fresh

NextBuild ==
    \/ MftLoad
    \/ \E w \in DOMAIN builder.threads : BuildFetchAdd(w) \/ BuildLoad(w) \/ BuildReport(w)
    \/ MftBuildEnd
    \/ MftFinish

NextWalker == WalkerScan
NextMft == MftStart \/ MftEnumerate \/ ProducerSend \/ ProducerExit \/ MftReceive \/ MftJoin
             \/ MftBuildTree \/ MftFinish
NextTop == TopStart \/ TopIterate \/ TopFinish
NextScan == ScanDispatch \/ ScanAfterMft \/ NextMft

Init == InitWalker \/ InitWalkerPar \/ InitBuild \/ InitMft \/ InitTop \/ InitScan
Next == WalkerScan \/ MftStart \/ MftEnumerate \/ ProducerSend \/ ProducerExit \/ MftReceive
          \/ MftJoin \/ MftBuildTree \/ MftFinish
          \/ TopStart \/ TopIterate \/ TopFinish \/ ScanDispatch \/ ScanAfterMft
          \/ NextWalkerPar
          \/ MftLoad \/ MftBuildEnd
          \/ (\E w \in DOMAIN builder.threads : BuildFetchAdd(w) \/ BuildLoad(w) \/ BuildReport(w))

Spec == Init /\ [][Next]_vars
SpecWalker == InitWalker /\ [][NextWalker]_vars
SpecWalkerPar == InitWalkerPar /\ [][NextWalkerPar]_vars
SpecBuild == InitBuild /\ [][NextBuild]_vars
SpecMft == InitMft /\ [][NextMft]_vars
\* the scans whose termination is checked: every chunking and every failure of the
\* producer, on a volume with no record of the drive and on one with one
PipeVolumes == { ForeignSlots, ForeignSlots \cup {3} }

InitMftFair ==
    /\ pc = "mft_start"
    /\ api = "scan_volume_mft"
    /\ pathKind = "volume_root"
    /\ NoTree /\ n = 0 /\ use_mft = FALSE
    /\ volume \in PipeVolumes
    /\ shallow_dirs = TRUE
    /\ hasProgress \in BOOLEAN
    /\ openOutcome \in OpenOutcomes
    /\ overflow_checks = FALSE
    /\ chunks \in Chunkings
    /\ fault \in Faults(chunks)
    /\ ~hasProgress => chunks = <<DataBytes>> /\ fault = NoFault
    /\ openOutcome # "ok" => PlainLoad
    /\ Fresh

\* the producer thread and the calling thread are each scheduled again and again: a step
\* of a thread that stays possible is eventually taken
SpecMftFair ==
    /\ InitMftFair /\ [][NextMft]_vars
    /\ WF_vars(ProducerSend \/ ProducerExit)
    /\ WF_vars(MftStart \/ MftEnumerate \/ MftReceive \/ MftJoin \/ MftBuildTree \/ MftFinish)
SpecTop == InitTop /\ [][NextTop]_vars
SpecScan == InitScan /\ [][NextScan]_vars

(***************************************************************************)
(* Properties.                                                             *)
(***************************************************************************)
\* the nodes of a tree, each paired with its level below the root
RECURSIVE NodesBelow(_, _)
NodesBelow(node, d) ==
    { <<node, d>> } \cup
    UNION { NodesBelow(node.children[k], d + 1) : k \in 1..Len(node.children) }

ChildSum(node) == SumSeq([k \in 1..Len(node.children) |-> node.children[k].size])
\* the sum modulo 2^64 (U64_MAX + 1)
Mod64(x) == x % (U64_MAX + 1)

HasShallowName(node) == \E s \in SHALLOW_DIR_NAMES : EqIgnoreAsciiCase(s, node.name)

WalkerApi == api \in {"scan_path", "scan_path_with_progress"}
WalkerOk == WalkerApi /\ pc = "done" /\ result.state = "Ok"
ScanOk == api = "scan" /\ pc = "done" /\ result.state = "Ok"
MftBuilt == tree # NoResult

\* the unpruned trees of a state: what the walker returned, what the MFT builder built
WalkerRoots ==
    (IF WalkerOk THEN {result.value.root} ELSE {}) \cup
    (IF ScanOk /\ ~result.value.used_mft THEN {result.value.res.root} ELSE {})
MftRoots == IF MftBuilt THEN {tree.root} ELSE {}

\* the size of the volume root's own record (0 when the MFT yields none)
RootRecordSize ==
    LET roots == { i \in 1..Len(records) :
                     EqIgnoreAsciiCase(TrimEndMatches(records[i].full_path, BS),
                                       volume_root_trim) }
    IN IF roots = {} THEN 0 ELSE records[CHOOSE i \in roots : \A j \in roots : i <= j].size

\* C1 as stated: every directory node of an unpruned result, walker or MFT, has
\* size equal to the sum of its children's sizes.
C1_SizeIsChildSum ==
    \A root \in WalkerRoots \cup MftRoots :
        \A nd \in NodesBelow(root, 0) : nd[1].is_dir => nd[1].size = ChildSum(nd[1])

\* C1 amended: a directory node's size is the sum of its children's sizes unless
\* the node is a childless shallow directory (which carries the size of its
\* contents) or, in an MFT tree, a childless leaf one level below the depth cap
\* (which carries its record's size); the MFT root's size is its record's size
\* plus the sum of its children's sizes.  In an MFT tree the sums are those of
\* the builder's unchecked 64-bit additions: the sum modulo 2^64.
C1_SizeLaw ==
    /\ \A root \in WalkerRoots : \A nd \in NodesBelow(root, 0) :
          nd[1].is_dir =>
             \/ nd[1].size = ChildSum(nd[1])
             \/ nd[2] > 0 /\ shallow_dirs /\ nd[1].children = <<>> /\ HasShallowName(nd[1])
    /\ \A root \in MftRoots :
          /\ root.size = Mod64(RootRecordSize + ChildSum(root))
          /\ \A nd \in NodesBelow(root, 0) :
                nd[2] > 0 /\ nd[1].is_dir =>
                   \/ nd[1].size = Mod64(ChildSum(nd[1]))
                   \/ shallow_dirs /\ nd[1].children = <<>> /\ HasShallowName(nd[1])
                   \/ nd[2] = MAX_DEPTH + 1 /\ nd[1].children = <<>>

\* an MFT tree whose root record has a size and where a directory below the root
\* has two children and a size
C1_Witness ==
    /\ MftBuilt
    /\ RootRecordSize > 0
    /\ \E nd \in NodesBelow(tree.root, 0) :
          nd[2] > 0 /\ Len(nd[1].children) >= 2 /\ nd[1].size > 0

\* the tree lies within the walker's caps, and nothing in it is shallow or denied
WithinCaps ==
    /\ \A q \in fs : Len(q) <= MAX_DEPTH
    /\ \A p \in fs \cup {<<>>} : Cardinality(ReadDir(p)) <= MAX_CHILDREN_PER_DIR
NoShallowNoDenied ==
    /\ ~rootListDenied
    /\ \A q \in fs : Entry(q).deny = "none" /\ ~IsShallowDir(q, shallow_dirs)
FilesOf(S) == { q \in S : Entry(q).kind = "file" }

MftOk == mft_ret.state = "Ok"

\* C3 as stated: the file_count of an MFT scan is the number of records accepted
\* during enumeration (n_records), not the number of nodes of the built tree.
C3_FileCountIsRecords == MftOk => mft_ret.value.file_count = counter

\* p is o with children removed: the same path, name, size, is_dir and modified,
\* and every child of p is a child of o pruned in the same way
RECURSIVE PrunedFrom(_, _)
PrunedFrom(p, o) ==
    /\ p.path = o.path /\ p.name = o.name /\ p.size = o.size
    /\ p.is_dir = o.is_dir /\ p.modified = o.modified
    /\ Len(p.children) <= Len(o.children)
    /\ \A k \in 1..Len(p.children) :
          \E j \in 1..Len(o.children) : PrunedFrom(p.children[k], o.children[j])

\* C4: display pruning changes no retained node's path, name, size, is_dir or
\* modified and only removes children; the pruned root's size is total_size.
C4_PruneKeepsFields ==
    MftOk => /\ PrunedFrom(mft_ret.value.root, tree.root)
             /\ mft_ret.value.root.size = mft_ret.value.total_size

\* a result where pruning removed nodes and kept a directory with children and a size
C4_Witness ==
    /\ MftOk
    /\ count_nodes(mft_ret.value.root) < count_nodes(tree.root)
    /\ \E nd \in NodesBelow(mft_ret.value.root, 0) :
          /\ nd[2] > 0 /\ nd[1].children # <<>> /\ nd[1].size > 0
          /\ \E od \in NodesBelow(tree.root, 0) :
                od[1].path = nd[1].path /\ Len(nd[1].children) < Len(od[1].children)

\* the trees handed back to a caller
ReturnedRoots ==
    (IF WalkerOk THEN {result.value.root} ELSE {}) \cup
    (IF api = "scan_volume_mft" /\ pc = "done" /\ result.state = "Ok"
     THEN {result.value.root} ELSE {}) \cup
    (IF ScanOk THEN {result.value.res.root} ELSE {})

\* C5 as stated: in every returned ScanResult, walker or MFT, no node lies more
\* than MAX_DEPTH_RETURN levels below the root and no node has more than
\* MAX_CHILDREN_PER_DIR_RETURN children.
C5_ReturnCaps ==
    \A root \in ReturnedRoots : \A nd \in NodesBelow(root, 0) :
        nd[2] <= MAX_DEPTH_RETURN /\ Len(nd[1].children) <= MAX_CHILDREN_PER_DIR_RETURN

NodesWithPath(root, q) == { nd[1] : nd \in { x \in NodesBelow(root, 0) : x[1].path = q } }

\* the two walker scans of the tree: the one made, and the one with the other flag
TreeOf(shallow) ==
    IF shallow = shallow_dirs THEN result.value
    ELSE scan_path_with_progress(shallow).ret.value

ShallowNamedDirs ==
    { q \in fs : PathIsDir(q) /\ \E s \in SHALLOW_DIR_NAMES : EqIgnoreAsciiCase(s, FileName(q)) }

IsPrefix(p, q) == Len(p) <= Len(q) /\ SubSeq(q, 1, Len(p)) = p

\* everything below q lies within the walker's depth and fan-out caps
SubtreeWithinCaps(q) ==
    \A r \in fs : IsPrefix(q, r) =>
        Len(r) <= MAX_DEPTH /\ Cardinality(ReadDir(r)) <= MAX_CHILDREN_PER_DIR

C7_DeniedIsSynthetic ==
    /\ WalkerApi /\ pc = "done" /\ pathKind = "dir" /\ ~rootListDenied => result.state = "Ok"
    /\ WalkerOk =>
          \A q \in fs : Entry(q).deny # "none" =>
             \A x \in NodesWithPath(result.value.root, q) :
                EndsWith(x.name, NoPermSuffix) /\ x.size = 0 /\ x.children = <<>>

SourceApis ==
    {"scan_path", "scan_path_with_progress", "scan_volume_mft", "scan_volume_mft_top_files"}
MftOnlyApis == {"scan_volume_mft", "scan_volume_mft_top_files"}

\* the call is one C8 speaks of: a path that does not exist, or an MFT-only entry
\* point on an existing path that is no volume root
RejectedCall ==
    /\ api \in SourceApis
    /\ pathKind = "missing" \/ (pathKind = "dir" /\ api \in MftOnlyApis)

\* C8: every entry point called with a path that does not exist, and each MFT-only
\* entry point called with an existing path that is no volume root, returns
\* InvalidPath at its first step; no volume is opened and the progress callback
\* is never invoked.
C8_InvalidPath ==
    RejectedCall =>
        /\ ~volumeOpened /\ ~cb_invoked
        /\ pc \in {"start", "mft_start", "done"}
        /\ pc = "done" => result.state = "Err" /\ result.kind = "InvalidPath"

\* the top-files entry point has returned from a call on an existing directory
\* that is no volume root, with a progress callback at hand
C8_Witness ==
    /\ api = "scan_volume_mft_top_files" /\ pathKind = "dir" /\ hasProgress
    /\ pc = "done" /\ result.state = "Err" /\ result.kind = "InvalidPath"

ScanDone == api = "scan" /\ pc = "done"
MftAttempted == use_mft /\ pathKind = "volume_root"

\* the text of the error the MFT scan fails with when the volume cannot be opened
ExpectedWarning ==
    CASE openOutcome = "ElevationError" ->
            <<"IO error: ", "NTFS volume access requires elevated (admin) privileges">>
      [] openOutcome = "IOError" -> <<"IO error: ", "MFT read I/O error: <io>">>
      [] OTHER -> <<"IO error: ", "MFT error: <e>">>

\* scan_warning is absent whenever the MFT result was used or the MFT path was
\* not attempted
WarningAbsent ==
    ScanOk /\ (result.value.used_mft \/ ~MftAttempted) =>
        result.value.res.scan_warning = NoneStr

\* C9 as stated: with use_mft on a volume root and a failing MFT scan, scan returns
\* Ok with the walker's result, used_mft = false and scan_warning equal to the
\* MFT error text; scan_warning is absent when used_mft or MFT was not attempted.
C9_FallbackAlwaysOk ==
    /\ ScanDone /\ MftAttempted /\ openOutcome # "ok" =>
          /\ result.state = "Ok"
          /\ ~result.value.used_mft
          /\ result.value.res.scan_warning = SomeStr(ExpectedWarning)
    /\ WarningAbsent

\* C9 amended: with use_mft on a volume root and a failing MFT scan, scan returns,
\* when the walker succeeds, Ok with the walker's result, used_mft = false and
\* scan_warning equal to the MFT error text, and when the walker fails, the
\* walker's error; scan_warning is absent when used_mft or MFT was not attempted.
C9_Fallback ==
    /\ ScanDone /\ MftAttempted /\ openOutcome # "ok" =>
          IF WalkerResult.ret.state = "Ok"
          THEN /\ result.state = "Ok"
               /\ ~result.value.used_mft
               /\ result.value.res.scan_warning = SomeStr(ExpectedWarning)
               /\ result.value.res.root = WalkerResult.ret.value.root
               /\ result.value.res.file_count = WalkerResult.ret.value.file_count
               /\ result.value.res.total_size = WalkerResult.ret.value.total_size
          ELSE result = WalkerResult.ret
    /\ WarningAbsent

\* a scan that fell back to the walker after the volume asked for elevation, and
\* returned a tree with the warning
C9_Witness ==
    /\ ScanOk /\ MftAttempted /\ openOutcome = "ElevationError"
    /\ ~result.value.used_mft
    /\ result.value.res.scan_warning = SomeStr(ExpectedWarning)
    /\ result.value.res.root.children # <<>>

\* the records of the volume that the top-files scan counts: not directories,
\* normalized path under the volume
EligibleSlots ==
    { i \in volume :
        /\ ~MftSlots[i].is_directory
        /\ path_under_volume_ascii(normalize_ntfs_path(MftSlots[i].path, Drive),
                                   volume_root_trim) }
TopOk == api = "scan_volume_mft_top_files" /\ pc = "done" /\ result.state = "Ok"

\* C10: for every n >= 0 the output of scan_volume_mft_top_files is ordered by
\* size non-increasing, holds only non-directory records whose normalized path
\* lies under the volume, and has length min(n, number of such records).
C10_TopFiles ==
    TopOk =>
        LET list == result.value
        IN /\ \A i \in 1..(Len(list) - 1) : list[i].size >= list[i + 1].size
           /\ \A i \in 1..Len(list) :
                 \E s \in EligibleSlots :
                    /\ list[i].path = normalize_ntfs_path(MftSlots[s].path, Drive)
                    /\ list[i].size = MftSlots[s].size
           /\ Len(list) = Min(n, Cardinality(EligibleSlots))

\* a volume with more files than asked for, directories and a foreign record:
\* the list is cut to n entries of different sizes
C10_Witness ==
    /\ TopOk /\ n = MaxN
    /\ Cardinality(EligibleSlots) > n
    /\ \E i \in volume : MftSlots[i].is_directory
    /\ Len(result.value) = n
    /\ result.value[1].size > result.value[n].size


\* the records a full MFT scan of the volume holds after enumeration: one per slot in
\* use whose normalized path lies under the volume, in slot order
RECURSIVE EnumeratedRecords(_, _)
EnumeratedRecords(V, i) ==
    IF i > Len(MftSlots) THEN <<>>
    ELSE (IF i \in V /\ i \notin ForeignSlots THEN <<MftRecord(MftSlots[i])>> ELSE <<>>)
         \o EnumeratedRecords(V, i + 1)

Occurrences(s, e) == Cardinality({ i \in 1..Len(s) : s[i] = e })
SameMultiset(a, b) ==
    /\ Len(a) = Len(b)
    /\ \A i \in 1..Len(a) : Occurrences(a, a[i]) = Occurrences(b, a[i])
SizesOf(list) == [i \in 1..Len(list) |-> list[i].size]

\* the top n files of a full scan of the same volume
FullScanTop == build_top_files_from_records(EnumeratedRecords(volume, 1), n)
\* the file records of the full scan, largest first; the n-th and the one after it
\* have one size: the cut goes through files of equal size
FullScanFiles == SortBySizeDesc(SelectSeq(EnumeratedRecords(volume, 1), NotDir))
TieAtCut ==
    /\ n >= 1
    /\ Len(FullScanFiles) > n
    /\ FullScanFiles[n].size = FullScanFiles[n + 1].size

\* C11 as stated: for the same records and the same n, the multiset of entries
\* (path, size, modified) the bounded-heap selector returns equals the multiset of
\* the top-n entries taken from the full scan's records, for every input, files of
\* equal size included.
C11_SameEntries == TopOk => SameMultiset(result.value, FullScanTop)

\* C11 amended: for the same records and the same n the two selections hold the
\* same multiset of sizes; they hold the same multiset of entries (path, size,
\* modified) whenever the n-th and the (n+1)-th largest file do not have the same
\* size.
C11_SameSizes ==
    TopOk =>
        /\ SameMultiset(SizesOf(result.value), SizesOf(FullScanTop))
        /\ ~TieAtCut => SameMultiset(result.value, FullScanTop)

\* two files of one size are both selected and a smaller file is left out
C11_Witness ==
    /\ TopOk /\ n = 2 /\ ~TieAtCut
    /\ Len(FullScanFiles) > n
    /\ Len(result.value) = 2
    /\ result.value[1].size = result.value[2].size
    /\ result.value[1].path # result.value[2].path

\* the file records held after enumeration
FileRecords == { j \in 1..Len(records) : ~records[j].is_dir }
EntryOf(rec) == [path |-> rec.full_path, size |-> rec.size, modified |-> rec.modified]
TopFilesOf(res) == res.top_files[1]

\* C12: in every successful MFT ScanResult top_files is present, holds only
\* records with is_dir = false, is ordered by size non-increasing, has length
\* min(TOP_FILES_FOR_RESULT, number of file records), and every file record left
\* out is no larger than the smallest one included.
C12_TopFilesOfScan ==
    MftOk =>
        /\ mft_ret.value.top_files # NoneVec
        /\ LET list == TopFilesOf(mft_ret.value)
           IN /\ \A i \in 1..Len(list) :
                    /\ \E j \in FileRecords : list[i] = EntryOf(records[j])
                    /\ Occurrences(list, list[i])
                          <= Cardinality({ j \in FileRecords : list[i] = EntryOf(records[j]) })
              /\ \A i \in 1..(Len(list) - 1) : list[i].size >= list[i + 1].size
              /\ Len(list) = Min(TOP_FILES_FOR_RESULT, Cardinality(FileRecords))
              /\ \A j \in FileRecords :
                    (\E i \in 1..Len(list) : records[j].size > list[i].size) =>
                       Occurrences(list, EntryOf(records[j]))
                          = Cardinality({ k \in FileRecords :
                                            EntryOf(records[k]) = EntryOf(records[j]) })

\* a scan with more file records than top_files holds and a directory record
\* larger than the smallest file included
C12_Witness ==
    /\ MftOk
    /\ Cardinality(FileRecords) > TOP_FILES_FOR_RESULT
    /\ Len(TopFilesOf(mft_ret.value)) = TOP_FILES_FOR_RESULT
    /\ \E j \in 1..Len(records) :
          /\ records[j].is_dir
          /\ records[j].size > TopFilesOf(mft_ret.value)[TOP_FILES_FOR_RESULT].size

\* recursive_sizes has been computed from the records, the child index and the
\* direct sizes of this state
SizesComputed == pc \in {"mft_built", "after_mft", "done"} /\ tree # NoResult

\* the sum of the recursive sizes of the records the child index lists under key
IndexedChildSum(key) ==
    LET indices == MapGet(child_index, key, <<>>)
    IN SumSeq([k \in 1..Len(indices) |->
                  MapGet(recursive_sizes,
                         TrimEndMatches(records[indices[k]].full_path, BS), 0)])

\* the sizes of the records add up to less than 2^64
SizesFit == SumSeq([i \in 1..Len(records) |-> records[i].size]) <= U64_MAX

\* C17 as stated: after compute_recursive_sizes, for every path p of the
\* recursive-size map, the volume root included, recursive[p] = direct[p] + the sum
\* of recursive[c] over the records c the child index lists as children of p.
C17_RecursiveIsDirectPlusChildren ==
    SizesComputed /\ SizesFit =>
        \A p \in DOMAIN recursive_sizes :
            recursive_sizes[p] = MapGet(direct_sizes, p, 0) + IndexedChildSum(p)

\* the sums of the MFT path as saturating additions compute them
SaturatingSum(s) == Min(SumSeq(s), U64_MAX)
SaturatingChildSum(node) ==
    SaturatingSum([k \in 1..Len(node.children) |-> node.children[k].size])
\* the key compute_recursive_sizes looks the children of p up under
ChildKey(p) == IF EqIgnoreAsciiCase(p, volume_root_trim) THEN volume_root_key ELSE p
MftScanEnded == api = "scan_volume_mft" /\ pc \in {"mft_built", "done"}

\* C18 as stated: every addition of sizes in the MFT path saturates at 2^64 - 1:
\* whatever the record sizes, no sum panics or wraps.  A scan that gets through
\* enumeration does not panic; the recursive size of a path is its direct size
\* plus the sum of its children's, saturated; a built directory's size is the
\* saturated sum of its children's sizes (plus the root record's for the root).
C18_SumsSaturate ==
    MftScanEnded /\ openOutcome = "ok" /\ pathKind = "volume_root" /\ fault = NoFault =>
        /\ result # Panicked
        /\ tree # NoResult
        /\ \A p \in DOMAIN recursive_sizes :
              recursive_sizes[p]
                 = SaturatingAdd(MapGet(direct_sizes, p, 0),
                                 Min(IndexedChildSum(ChildKey(p)), U64_MAX))
        /\ tree.root.size = SaturatingSum(<<RootRecordSize, SaturatingChildSum(tree.root)>>)
        /\ \A nd \in NodesBelow(tree.root, 0) :
              nd[2] > 0 /\ nd[1].children # <<>> => nd[1].size = SaturatingChildSum(nd[1])

\* the (size, path, modified) tuples of the file records enumerated so far
RECURSIVE SeenTuples(_, _)
SeenTuples(V, upto) ==
    IF upto = 0 THEN <<>>
    ELSE SeenTuples(V, upto - 1)
         \o (IF upto \in V /\ upto \notin ForeignSlots /\ ~MftSlots[upto].is_directory
             THEN << <<MftSlots[upto].size, normalize_ntfs_path(MftSlots[upto].path, Drive),
                       ModifiedOf(MftSlots[upto])>> >>
             ELSE <<>>)

\* a sequence of tuples, greatest first
RECURSIVE TuplesDesc(_)
TuplesDesc(s) ==
    IF s = <<>> THEN <<>>
    ELSE LET i == CHOOSE k \in 1..Len(s) : \A j \in 1..Len(s) : ~TupleLess(s[k], s[j])
         IN <<s[i]>> \o TuplesDesc(RemoveAt(s, i))

TopIterating == api = "scan_volume_mft_top_files" /\ pc = "top_iter"

\* C19: during scan_volume_mft_top_files, after each enumerated record the heap
\* holds at most n entries (a push onto at most n entries makes at most n + 1
\* before the pops), and they are the n largest (size, path, modified) tuples of
\* the file records seen so far.
C19_HeapHoldsLargest ==
    TopIterating =>
        /\ Len(heap) <= n
        /\ TuplesDesc(heap) = Take(TuplesDesc(SeenTuples(volume, next_slot - 1)), n)

\* the heap is full and a file record seen earlier has been dropped from it
C19_Witness ==
    /\ TopIterating /\ n >= 1
    /\ Len(heap) = n
    /\ Len(SeenTuples(volume, next_slot - 1)) > n + 1
    /\ \E i \in 1..Len(heap) : heap[i][1] > 2

\* C20 as stated: in the tree built by the MFT tree builder, every node created
\* for a record with is_dir = false, at any depth from 1 to the depth cap, has
\* is_dir = false, no children, the record's size and the record's modified time.
C20_FileNodes ==
    MftBuilt =>
        \A nd \in NodesBelow(tree.root, 0) :
            \A j \in 1..Len(records) :
                nd[2] >= 1 /\ nd[1].path = records[j].full_path /\ ~records[j].is_dir =>
                    /\ nd[1].is_dir = FALSE
                    /\ nd[1].children = <<>>
                    /\ nd[1].size = records[j].size
                    /\ nd[1].modified = records[j].modified

NonDecreasing(s) == \A i \in 1..Len(s) : \A j \in i..Len(s) : s[i] <= s[j]
MftProgressScan == api = "scan_volume_mft" /\ hasProgress

\* C14: in an MFT scan with a progress callback the counts passed to the callback
\* never decrease over the whole scan, and every callback of the tree-build phase
\* carries n_records, the total the enumeration ended with.
C14_ProgressCounts ==
    [][ MftProgressScan =>
          /\ NonDecreasing(cb_counts')
          /\ pc = "mft_indexed" =>
                \A i \in (Len(cb_counts) + 1)..Len(cb_counts') : cb_counts'[i] = counter ]_vars

\* the scan opened with 0, reported during enumeration, after each of several chunks
\* and at the end of enumeration, and the tree-build phase made a callback
C14_Witness ==
    /\ MftProgressScan /\ pc = "mft_built"
    /\ Len(chunks) >= 2
    /\ counter >= PROGRESS_EVERY
    /\ Len(cb_counts) >= Len(chunks) + 4
    /\ cb_counts[1] = 0
    /\ \E i \in 1..Len(cb_counts) : cb_counts[i] = PROGRESS_EVERY
    /\ cb_counts[Len(cb_counts)] = counter
    /\ tree.nodes_built >= BUILD_TREE_PROGRESS_EVERY

\* the records of the slots 1..upto in use, as the record indexer stores them
RECURSIVE RecordsUpTo(_, _)
RecordsUpTo(V, upto) ==
    IF upto = 0 THEN <<>>
    ELSE RecordsUpTo(V, upto - 1)
         \o (IF upto \in V /\ upto \notin ForeignSlots THEN <<MftRecord(MftSlots[upto])>>
             ELSE <<>>)

Tags(s) == [i \in 1..Len(s) |-> s[i].tag]
DataReceived == \E i \in 1..Len(received) : received[i].tag = "Data"

\* C15: the consumer receives the messages in the order the producer sent them,
\* RecordSize, Bitmap, Volume, then the $DATA chunks; so when it handles a Data
\* chunk, record_size, bitmap and volume have been received, and the records of
\* every whole record slot received so far have been indexed, none advanced past.
C15_MessageOrder ==
    MftProgressScan =>
        /\ IsPrefix(received \o chan, Messages)
        /\ IsPrefix(Take(Tags(received), 3), <<"RecordSize", "Bitmap", "Volume">>)
        /\ DataReceived =>
              /\ consumer.record_size = FileRecordSize /\ consumer.bitmap /\ consumer.volume
              /\ consumer.last_record_index = consumer.data_len \div FileRecordSize
              /\ next_slot = consumer.last_record_index + 1
              /\ records = RecordsUpTo(volume, consumer.last_record_index)

\* several Data chunks have been handled, one of them ending inside a record, and
\* records have been indexed
C15_Witness ==
    /\ MftProgressScan /\ pc = "mft_recv"
    /\ Cardinality({ i \in 1..Len(received) : received[i].tag = "Data" }) >= 2
    /\ consumer.data_len % FileRecordSize # 0
    /\ Len(records) >= 2

ProducerFailed == producer.pc = "exited" /\ producer.ret # Ok(<<>>)
\* what scan_volume_mft returns for a producer that ended with ret
ProducerError(ret) ==
    IF ret = Panicked THEN Err("Io", "MFT producer thread panicked") ELSE ret

\* C16 as stated: whenever the producer thread returns an error or panics, while
\* reading $BITMAP or while streaming $DATA, the consumer leaves its loop, joins
\* the producer thread, and scan_volume_mft returns the producer's error (or the
\* producer-panicked error), not another one.
C16_ProducerErrorPropagates ==
    MftProgressScan /\ pc = "done" /\ ProducerFailed =>
        producer_joined /\ result = ProducerError(producer.ret)

WalkerCalls == api = "scan_path_with_progress" /\ pc \in {"walking", "done"} /\ tasks # EmptyMap

\* C13 as stated: in a walker scan whose child directories are processed by
\* parallel workers, the counts passed to the progress callback, in the order of
\* the callback invocations, never decrease, whatever the interleaving of the
\* workers' counter updates, counter reads and callback calls.
C13_CountsNeverDecrease == WalkerCalls => NonDecreasing(cb_counts)

\* C21 as stated: the unpruned tree of the MFT tree builder obeys the walker's
\* caps: every node, the root included, has at most MAX_CHILDREN_PER_DIR children
\* and no node lies more than MAX_DEPTH levels below the root.
C21_MftTreeCaps ==
    \A root \in MftRoots : \A nd \in NodesBelow(root, 0) :
        Len(nd[1].children) <= MAX_CHILDREN_PER_DIR /\ nd[2] <= MAX_DEPTH

SortedBySizeDesc(list) == \A i \in 1..(Len(list) - 1) : list[i].size >= list[i + 1].size
MftReturned == api = "scan_volume_mft" /\ pc = "done" /\ result.state = "Ok"

\* C22 as stated: after display pruning the children of every retained node at a
\* depth below MAX_DEPTH_RETURN are ordered by size non-increasing, whether or not
\* the node had more than MAX_CHILDREN_PER_DIR_RETURN children before pruning.
C22_PrunedChildrenSorted ==
    MftReturned =>
        \A nd \in NodesBelow(result.value.root, 0) :
            nd[2] < MAX_DEPTH_RETURN => SortedBySizeDesc(nd[1].children)

\* the path of a record up to its last separator
ParentKey(path) == SubSeq(path, 1, RFind(path, BS) - 1)
IsRootRecord(rec) == EqIgnoreAsciiCase(TrimEndMatches(rec.full_path, BS), volume_root_trim)
Increasing(list) == \A k \in 1..(Len(list) - 1) : list[k] < list[k + 1]
Occurs(list, e) == \E k \in 1..Len(list) : list[k] = e
\* the sizes of the records whose trimmed path is p, in the order they were enumerated
RECURSIVE SizesAt(_, _)
SizesAt(p, upto) ==
    IF upto = 0 THEN <<>>
    ELSE SizesAt(p, upto - 1)
         \o (IF TrimEndMatches(records[upto].full_path, BS) = p
             THEN <<records[upto].size>> ELSE <<>>)
RECURSIVE SaturatingFold(_)
SaturatingFold(s) ==
    IF s = <<>> THEN 0
    ELSE SaturatingAdd(SaturatingFold(SubSeq(s, 1, Len(s) - 1)), s[Len(s)])
MftScan == api \in {"scan_volume_mft", "scan"}

UnderVolume(path) ==
    /\ Len(path) >= Len(volume_root_key)
    /\ EqIgnoreAsciiCase(SubSeq(path, 1, Len(volume_root_key)), volume_root_key)
\* the slots enumerated so far whose record the filter lets through
StoredSlots ==
    { i \in volume : i < next_slot } \ ForeignSlots

\* C26: a record is stored only if its normalized path equals X: or starts with
\* X:\ (ASCII case-insensitive); hence every stored record path, every non-root
\* tree node path and every top-file entry path starts with X:\, and paths on
\* other drives or in unrecognised forms are never stored.
C26_PathsUnderVolume ==
    /\ \A i \in 1..Len(records) : UnderVolume(records[i].full_path)
    /\ MftScan => Len(records) = Cardinality(StoredSlots)
    /\ \A root \in MftRoots : \A nd \in NodesBelow(root, 0) :
          nd[2] > 0 => UnderVolume(nd[1].path)
    /\ MftReturned =>
          \A i \in 1..Len(result.value.top_files[1]) : UnderVolume(result.value.top_files[1][i].path)
    /\ TopOk => \A i \in 1..Len(result.value) : UnderVolume(result.value[i].path)
    /\ \A i \in 1..Len(heap) : UnderVolume(heap[i][2])

\* a scan of a volume with a record on another drive and records in all the forms
\* the normalizer knows has returned a tree and top files
C26_Witness ==
    /\ MftReturned
    /\ {1, 3, 4, 11, 13, 14} \subseteq volume
    /\ Len(result.value.top_files[1]) >= 1
    /\ Len(records) >= 5

\* no file record has this path
NoFileRecordAt(path) == \A i \in 1..Len(records) : records[i].full_path = path => records[i].is_dir

\* C29 as stated: every directory node of the unpruned MFT tree (recursed
\* directories, shallow directories and the root) has the size the recursive-size
\* map holds for its path.
C29_SizesFromMap ==
    MftBuilt /\ SizesFit =>
        /\ tree.root.size = MapGet(recursive_sizes, volume_root_trim, 0)
        /\ \A nd \in NodesBelow(tree.root, 0) :
              nd[2] > 0 /\ nd[1].is_dir /\ NoFileRecordAt(nd[1].path) =>
                 nd[1].size = MapGet(recursive_sizes, TrimEndMatches(nd[1].path, BS), 0)

\* child node a stands before child node b in the walker's order: directories
\* before files, each group by name
NodeBefore(a, b) ==
    IF a.is_dir # b.is_dir THEN a.is_dir
    ELSE StrLess(FileName(a.path), FileName(b.path))
ChildPaths(node) == { node.children[k].path : k \in 1..Len(node.children) }
\* the node lists its directory: it is a directory above the depth cap that is
\* neither shallow nor denied
Listed(nd) ==
    /\ nd[1].is_dir /\ nd[2] < MAX_DEPTH
    /\ nd[2] = 0 \/ (Entry(nd[1].path).deny = "none" /\ ~IsShallowDir(nd[1].path, shallow_dirs))

\* C23: in a walker result the children of every directory stand with all
\* directories before all files, each group in the order of their names, and
\* are the first MAX_CHILDREN_PER_DIR entries of the directory in that order,
\* however the parallel child tasks interleave.
C23_ChildOrder ==
    \A root \in WalkerRoots : \A nd \in NodesBelow(root, 0) :
        /\ \A i \in 1..Len(nd[1].children) : \A j \in (i + 1)..Len(nd[1].children) :
              NodeBefore(nd[1].children[i], nd[1].children[j])
        /\ Listed(nd) =>
              /\ ChildPaths(nd[1]) \subseteq ReadDir(nd[1].path)
              /\ Len(nd[1].children)
                    = Min(Cardinality(ReadDir(nd[1].path)), MAX_CHILDREN_PER_DIR)
              /\ \A q \in ReadDir(nd[1].path) \ ChildPaths(nd[1]) :
                    \A k \in 1..Len(nd[1].children) :
                        IF nd[1].children[k].is_dir # PathIsDir(q)
                        THEN nd[1].children[k].is_dir
                        ELSE StrLess(FileName(nd[1].children[k].path), FileName(q))

\* a scan followed call by call has returned a root with more entries than the cap
\* and a directory that holds directories and a file
C23_Witness ==
    /\ WalkerOk /\ tasks # EmptyMap
    /\ Cardinality(ReadDir(<<>>)) > MAX_CHILDREN_PER_DIR
    /\ Len(result.value.root.children) = MAX_CHILDREN_PER_DIR
    /\ \E nd \in NodesBelow(result.value.root, 0) :
          \E i, j \in 1..Len(nd[1].children) :
              nd[1].children[i].is_dir /\ ~nd[1].children[j].is_dir

WalkerParDone == api = "scan_path_with_progress" /\ pc = "done" /\ tasks # EmptyMap

\* C28 as stated: in a walker scan with a progress callback the count passed when
\* a directory finishes is the number of files and directories completed so far,
\* and the count passed when the root finishes, the last and largest, equals
\* result.file_count.
C28_LastCountIsFileCount ==
    WalkerParDone /\ hasProgress /\ result.state = "Ok" =>
        /\ cb_counts # <<>>
        /\ cb_counts[Len(cb_counts)] = result.value.file_count
        /\ \A i \in 1..Len(cb_counts) : cb_counts[i] <= cb_counts[Len(cb_counts)]

\* the records of the slots lo..hi in use, as the record indexer stores them
RECURSIVE RecordsIn(_, _, _)
RecordsIn(V, lo, hi) ==
    IF lo > hi THEN <<>>
    ELSE (IF lo \in V /\ lo \notin ForeignSlots THEN <<MftRecord(MftSlots[lo])>> ELSE <<>>)
         \o RecordsIn(V, lo + 1, hi)
WholeRecords(bytes) == bytes \div FileRecordSize
DataHandled == pc = "mft_recv" /\ chan # <<>> /\ Head(chan).tag = "Data"

\* C24: however the $DATA stream is cut into Data chunks, the ranges of record
\* indices the consumer enumerates on successive Data messages follow one
\* another without gap or overlap, each ends at the last record whose bytes have
\* all arrived, and when the stream has ended they cover the whole records of
\* the stream: every whole record is enumerated once.
C24_ChunkRanges ==
    [][ MftProgressScan =>
          /\ DataHandled /\ received' # received =>
                /\ consumer'.data_len = consumer.data_len + Head(chan).v
                /\ consumer'.last_record_index = WholeRecords(consumer'.data_len)
                /\ consumer'.last_record_index >= consumer.last_record_index
                /\ records' = records \o RecordsIn(volume, consumer.last_record_index + 1,
                                                   consumer'.last_record_index)
          /\ pc' = "mft_indexed" /\ pc = "mft_recv" =>
                /\ consumer.data_len = SumSeq(chunks)
                /\ records = RecordsIn(volume, 1, WholeRecords(SumSeq(chunks))) ]_vars

\* the receive loop has ended on a stream cut into three chunks, two of them
\* ending inside a record, or on a stream with a byte after its last whole record
C24_Witness ==
    /\ MftProgressScan /\ pc = "mft_indexed"
    /\ Len(chunks) >= 2
    /\ \E i \in 1..Len(chunks) : chunks[i] % FileRecordSize # 0
    /\ consumer.last_record_index = Len(MftSlots)
    /\ Len(records) >= 4

\* the build-progress events so far: the callbacks made after those of the load
NothingIndexed ==
    [records |-> <<>>, child_index |-> EmptyMap, direct_sizes |-> EmptyMap, counter |-> 0,
     events |-> <<>>]
BuildEvents ==
    Len(cb_counts) - Len(LoadCounts(IndexRange(NothingIndexed, volume, 1, Len(MftSlots))))

\* C27: in the parallel tree build, under every interleaving of the threads,
\* last_reported never decreases; a build-progress event happens exactly in the step of a
\* successful compare-exchange, which advances last_reported by at least
\* BUILD_TREE_PROGRESS_EVERY; so the events number at most nodes_built /
\* BUILD_TREE_PROGRESS_EVERY, and no two threads report for the same advance
C27_BuildProgress ==
    /\ [](pc = "mft_building" =>
            /\ BuildEvents = Len(builder.last_reported) - 1
            /\ BuildEvents * BUILD_TREE_PROGRESS_EVERY <= builder.nodes_built)
    /\ [][ pc = "mft_building" /\ pc' = "mft_building" =>
             /\ Latest(builder') >= Latest(builder)
             /\ \/ /\ cb_counts' = cb_counts
                   /\ builder'.last_reported = builder.last_reported
                \/ /\ cb_counts' = Append(cb_counts, counter)
                   /\ Len(builder'.last_reported) = Len(builder.last_reported) + 1
                   /\ Latest(builder') - Latest(builder) >= BUILD_TREE_PROGRESS_EVERY ]_vars

\* a thread is about to fail its compare-exchange: its advance is large enough, but
\* another thread has reported since it loaded last_reported
C27_Witness ==
    /\ pc = "mft_building"
    /\ BuildEvents >= 1
    /\ \E w \in DOMAIN builder.threads :
          /\ builder.threads[w].pc = "loaded"
          /\ builder.threads[w].cur - builder.threads[w].last >= BUILD_TREE_PROGRESS_EVERY
          /\ Latest(builder) # builder.threads[w].last

\* the producer waits in tx.send(..) on the full channel
ProducerBlocked ==
    /\ pc = "mft_recv" /\ producer.pc = "run" /\ producer.sent < Len(Messages)
    /\ fault.before # producer.sent + 1
    /\ Len(chan) = QUEUE_CAP

\* the consumer waits in rx.recv() on the empty channel
ConsumerBlocked == pc = "mft_recv" /\ chan = <<>>

\* C30: whatever the producer does (it completes, returns an error at some step or
\* panics) and however many Data chunks there are, under fair scheduling of the two
\* threads the producer does not stay blocked on the full channel, the consumer does not
\* stay blocked on the empty channel, the receive loop ends and scan_volume_mft returns
C30_PipelineTerminates ==
    /\ ProducerBlocked ~> ~ProducerBlocked
    /\ ConsumerBlocked ~> ~ConsumerBlocked
    /\ (pc = "mft_recv") ~> (pc # "mft_recv")
    /\ <>(pc = "done" /\ mft_ret # NoResult)

\* the producer is blocked on the full channel with Data chunks still to send
C30_Witness ==
    /\ ProducerBlocked
    /\ Messages[producer.sent + 1].tag = "Data"
    /\ Len(chunks) >= 2
====
